---- MODULE Spec2Model ----
(***************************************************************************)
(* Emoji address codec (BIP-emoji reference implementation).               *)
(*                                                                         *)
(* Python strings are modelled as sequences of Unicode code points         *)
(* (integers): "1" is 49, U+FE0F is 65039.  Byte strings are sequences of  *)
(* integers in 0..255.  Python's unbounded int is a little-endian sequence *)
(* of base-65536 digits.                                                   *)
(***************************************************************************)
EXTENDS Integers, Sequences, FiniteSets, TLC

-----------------------------------------------------------------------------
(* Generic sequence helpers                                                *)

Range(s) == {s[i] : i \in 1..Len(s)}

\* Python: c in s, for a one-character c
Contains(s, c) == \E i \in 1..Len(s) : s[i] = c

\* Python: s.index(c), zero-based position of the first occurrence
IndexOf(s, c) ==
    (CHOOSE i \in 1..Len(s) : s[i] = c /\ \A j \in 1..(i - 1) : s[j] # c) - 1

\* name = value, then Body(name): the value is computed first, and once
With(value, Body(_)) == IF value = value THEN Body(value) ELSE Body(value)

\* a for-loop: acc = Step(acc, i) for i = lo, ..., hi in turn. The range is
\* halved, and the first half is finished before the second begins.
RECURSIVE Loop(_, _, _, _)
Loop(Step(_, _), acc, lo, hi) ==
    IF lo > hi THEN acc
    ELSE IF lo = hi THEN Step(acc, lo)
    ELSE With(Loop(Step, acc, lo, (lo + hi) \div 2),
              LAMBDA half : Loop(Step, half, ((lo + hi) \div 2) + 1, hi))

\* Python: x * n, for a one-element x
Repeat(x, n) == [i \in 1..n |-> x]

\* Python: s.lstrip(c)
LStrip(s, c) ==
    IF \A i \in 1..Len(s) : s[i] = c THEN <<>>
    ELSE SubSeq(s, CHOOSE i \in 1..Len(s) :
                       s[i] # c /\ \A j \in 1..(i - 1) : s[j] = c,
                Len(s))

\* Python: s[-n:] and s[:-n] for 0 < n <= len(s)
LastN(s, n) == SubSeq(s, Len(s) - n + 1, Len(s))
DropLastN(s, n) == SubSeq(s, 1, Len(s) - n)

-----------------------------------------------------------------------------
(* The Base58 alphabet                                                     *)

\* '123456789ABCDEFGHJKLMNPQRSTUVWXYZabcdefghijkmnopqrstuvwxyz'
BASE58_ALPHABET ==
    << 49, 50, 51, 52, 53, 54, 55, 56, 57, 65, 66, 67, 68, 69, 70, 71, 72,
       74, 75, 76, 77, 78, 80, 81, 82, 83, 84, 85, 86, 87, 88, 89, 90, 97,
       98, 99, 100, 101, 102, 103, 104, 105, 106, 107, 109, 110, 111, 112,
       113, 114, 115, 116, 117, 118, 119, 120, 121, 122 >>

-----------------------------------------------------------------------------
(* SHA-256 (hashlib.sha256), FIPS 180-4.  A 32-bit word is a pair          *)
(* <<high 16 bits, low 16 bits>>.                                          *)

XorNibble ==
    << << 0,  1,  2,  3,  4,  5,  6,  7,  8,  9, 10, 11, 12, 13, 14, 15>>,
       << 1,  0,  3,  2,  5,  4,  7,  6,  9,  8, 11, 10, 13, 12, 15, 14>>,
       << 2,  3,  0,  1,  6,  7,  4,  5, 10, 11,  8,  9, 14, 15, 12, 13>>,
       << 3,  2,  1,  0,  7,  6,  5,  4, 11, 10,  9,  8, 15, 14, 13, 12>>,
       << 4,  5,  6,  7,  0,  1,  2,  3, 12, 13, 14, 15,  8,  9, 10, 11>>,
       << 5,  4,  7,  6,  1,  0,  3,  2, 13, 12, 15, 14,  9,  8, 11, 10>>,
       << 6,  7,  4,  5,  2,  3,  0,  1, 14, 15, 12, 13, 10, 11,  8,  9>>,
       << 7,  6,  5,  4,  3,  2,  1,  0, 15, 14, 13, 12, 11, 10,  9,  8>>,
       << 8,  9, 10, 11, 12, 13, 14, 15,  0,  1,  2,  3,  4,  5,  6,  7>>,
       << 9,  8, 11, 10, 13, 12, 15, 14,  1,  0,  3,  2,  5,  4,  7,  6>>,
       <<10, 11,  8,  9, 14, 15, 12, 13,  2,  3,  0,  1,  6,  7,  4,  5>>,
       <<11, 10,  9,  8, 15, 14, 13, 12,  3,  2,  1,  0,  7,  6,  5,  4>>,
       <<12, 13, 14, 15,  8,  9, 10, 11,  4,  5,  6,  7,  0,  1,  2,  3>>,
       <<13, 12, 15, 14,  9,  8, 11, 10,  5,  4,  7,  6,  1,  0,  3,  2>>,
       <<14, 15, 12, 13, 10, 11,  8,  9,  6,  7,  4,  5,  2,  3,  0,  1>>,
       <<15, 14, 13, 12, 11, 10,  9,  8,  7,  6,  5,  4,  3,  2,  1,  0>> >>

AndNibble ==
    << << 0,  0,  0,  0,  0,  0,  0,  0,  0,  0,  0,  0,  0,  0,  0,  0>>,
       << 0,  1,  0,  1,  0,  1,  0,  1,  0,  1,  0,  1,  0,  1,  0,  1>>,
       << 0,  0,  2,  2,  0,  0,  2,  2,  0,  0,  2,  2,  0,  0,  2,  2>>,
       << 0,  1,  2,  3,  0,  1,  2,  3,  0,  1,  2,  3,  0,  1,  2,  3>>,
       << 0,  0,  0,  0,  4,  4,  4,  4,  0,  0,  0,  0,  4,  4,  4,  4>>,
       << 0,  1,  0,  1,  4,  5,  4,  5,  0,  1,  0,  1,  4,  5,  4,  5>>,
       << 0,  0,  2,  2,  4,  4,  6,  6,  0,  0,  2,  2,  4,  4,  6,  6>>,
       << 0,  1,  2,  3,  4,  5,  6,  7,  0,  1,  2,  3,  4,  5,  6,  7>>,
       << 0,  0,  0,  0,  0,  0,  0,  0,  8,  8,  8,  8,  8,  8,  8,  8>>,
       << 0,  1,  0,  1,  0,  1,  0,  1,  8,  9,  8,  9,  8,  9,  8,  9>>,
       << 0,  0,  2,  2,  0,  0,  2,  2,  8,  8, 10, 10,  8,  8, 10, 10>>,
       << 0,  1,  2,  3,  0,  1,  2,  3,  8,  9, 10, 11,  8,  9, 10, 11>>,
       << 0,  0,  0,  0,  4,  4,  4,  4,  8,  8,  8,  8, 12, 12, 12, 12>>,
       << 0,  1,  0,  1,  4,  5,  4,  5,  8,  9,  8,  9, 12, 13, 12, 13>>,
       << 0,  0,  2,  2,  4,  4,  6,  6,  8,  8, 10, 10, 12, 12, 14, 14>>,
       << 0,  1,  2,  3,  4,  5,  6,  7,  8,  9, 10, 11, 12, 13, 14, 15>> >>

NibbleOp(tbl, a, b) ==
    (tbl[(a \div 16) + 1][(b \div 16) + 1] * 16) + tbl[(a % 16) + 1][(b % 16) + 1]
XorByte == [a \in 0..255 |-> [b \in 0..255 |-> NibbleOp(XorNibble, a, b)]]
AndByte == [a \in 0..255 |-> [b \in 0..255 |-> NibbleOp(AndNibble, a, b)]]
Xor16(a, b) == (XorByte[a \div 256][b \div 256] * 256) + XorByte[a % 256][b % 256]
And16(a, b) == (AndByte[a \div 256][b \div 256] * 256) + AndByte[a % 256][b % 256]

WXor(x, y) == <<Xor16(x[1], y[1]), Xor16(x[2], y[2])>>
WAnd(x, y) == <<And16(x[1], y[1]), And16(x[2], y[2])>>
WNot(x) == <<65535 - x[1], 65535 - x[2]>>
WAdd(x, y) ==
    LET lo == x[2] + y[2]
    IN  <<(x[1] + y[1] + (lo \div 65536)) % 65536, lo % 65536>>

Rotr16(x, n) ==
    IF n = 0 THEN x
    ELSE <<(x[1] \div (2^n)) + ((x[2] % (2^n)) * (2^(16 - n))),
           (x[2] \div (2^n)) + ((x[1] % (2^n)) * (2^(16 - n)))>>
Rotr(x, n) == IF n >= 16 THEN Rotr16(<<x[2], x[1]>>, n - 16) ELSE Rotr16(x, n)
Shr(x, n) ==
    IF n >= 16 THEN <<0, x[1] \div (2^(n - 16))>>
    ELSE <<x[1] \div (2^n), (x[2] \div (2^n)) + ((x[1] % (2^n)) * (2^(16 - n)))>>

SHA256_K ==
    << <<17034, 12184>>, <<28983, 17553>>, <<46528, 64463>>, <<59829, 56229>>,
       <<14678, 49755>>, <<23025, 4593>>, <<37439, 33444>>, <<43804, 24277>>,
       <<55303, 43672>>, <<4739, 23297>>, <<9265, 34238>>, <<21772, 32195>>,
       <<29374, 23924>>, <<32990, 45566>>, <<39900, 1703>>, <<49563, 61812>>,
       <<58523, 27073>>, <<61374, 18310>>, <<4033, 40390>>, <<9228, 41420>>,
       <<11753, 11375>>, <<19060, 33962>>, <<23728, 43484>>, <<30457, 35034>>,
       <<38974, 20818>>, <<43057, 50797>>, <<45059, 10184>>, <<48985, 32711>>,
       <<50912, 3059>>, <<54695, 37191>>, <<1738, 25425>>, <<5161, 10599>>,
       <<10167, 2693>>, <<11803, 8504>>, <<19756, 28156>>, <<21304, 3347>>,
       <<25866, 29524>>, <<30314, 2747>>, <<33218, 51502>>, <<37490, 11397>>,
       <<41663, 59553>>, <<43034, 26187>>, <<49739, 35696>>, <<51052, 20899>>,
       <<53650, 59417>>, <<54937, 1572>>, <<62478, 13701>>, <<4202, 41072>>,
       <<6564, 49430>>, <<7735, 27656>>, <<10056, 30540>>, <<13488, 48309>>,
       <<14620, 3251>>, <<20184, 43594>>, <<23452, 51791>>, <<26670, 28659>>,
       <<29839, 33518>>, <<30885, 25455>>, <<33992, 30740>>, <<36039, 520>>,
       <<37054, 65530>>, <<42064, 27883>>, <<48889, 41975>>, <<50801, 30962>> >>

SHA256_H0 ==
    << <<27145, 58983>>, <<47975, 44677>>, <<15470, 62322>>, <<42319, 62778>>,
       <<20750, 21119>>, <<39685, 26764>>, <<8067, 55723>>, <<23520, 52505>> >>

\* message padding: 0x80, zeros up to 56 mod 64, the bit length as 8 bytes
Sha256Pad(msg) ==
    LET n == Len(msg)
        z == (119 - (n % 64)) % 64
        bits == n * 8
    IN  msg \o <<128>> \o Repeat(0, z) \o <<0, 0, 0, 0>>
            \o <<(bits \div 16777216) % 256, (bits \div 65536) % 256,
                 (bits \div 256) % 256, bits % 256>>

BlockWord(p, off, t) ==
    <<(p[off + 4 * t + 1] * 256) + p[off + 4 * t + 2],
      (p[off + 4 * t + 3] * 256) + p[off + 4 * t + 4]>>

SmallSigma0(x) == WXor(WXor(Rotr(x, 7), Rotr(x, 18)), Shr(x, 3))
SmallSigma1(x) == WXor(WXor(Rotr(x, 17), Rotr(x, 19)), Shr(x, 10))
BigSigma0(x) == WXor(WXor(Rotr(x, 2), Rotr(x, 13)), Rotr(x, 22))
BigSigma1(x) == WXor(WXor(Rotr(x, 6), Rotr(x, 11)), Rotr(x, 25))
Ch(x, y, z) == WXor(WAnd(x, y), WAnd(WNot(x), z))
Maj(x, y, z) == WXor(WXor(WAnd(x, y), WAnd(x, z)), WAnd(y, z))

\* the message schedule w[0..63] of the block at offset off
Schedule(p, off) ==
    Loop(LAMBDA w, t :
            Append(w, IF t < 16 THEN BlockWord(p, off, t)
                      ELSE WAdd(WAdd(SmallSigma1(w[t - 1]), w[t - 6]),
                                WAdd(SmallSigma0(w[t - 14]), w[t - 15]))),
         <<>>, 0, 63)

\* round t on the working variables s = <<a, b, c, d, e, f, g, h>>
RoundSums(s, t1, t2) ==
    <<WAdd(t1, t2), s[1], s[2], s[3], WAdd(s[4], t1), s[5], s[6], s[7]>>
Round(s, w, t) ==
    RoundSums(s,
              WAdd(WAdd(WAdd(s[8], BigSigma1(s[5])),
                        WAdd(Ch(s[5], s[6], s[7]), SHA256_K[t])), w[t]),
              WAdd(BigSigma0(s[1]), Maj(s[1], s[2], s[3])))

\* the 64 rounds on the schedule w, then the sums
Rounds(h, w) ==
    With(Loop(LAMBDA v, t : Round(v, w, t), h, 1, 64),
         LAMBDA s :
            <<WAdd(h[1], s[1]), WAdd(h[2], s[2]), WAdd(h[3], s[3]), WAdd(h[4], s[4]),
              WAdd(h[5], s[5]), WAdd(h[6], s[6]), WAdd(h[7], s[7]), WAdd(h[8], s[8])>>)

Compress(h, p, off) == With(Schedule(p, off), LAMBDA w : Rounds(h, w))

\* the 64-byte blocks of the padded message, in turn
Blocks(h, p) == Loop(LAMBDA v, b : Compress(v, p, 64 * b), h, 0, (Len(p) \div 64) - 1)

WordBytes(wd) == <<wd[1] \div 256, wd[1] % 256, wd[2] \div 256, wd[2] % 256>>

\* hashlib.sha256(msg).digest()
Sha256(msg) ==
    With(Sha256Pad(msg), LAMBDA p :
    With(Blocks(SHA256_H0, p), LAMBDA h :
        WordBytes(h[1]) \o WordBytes(h[2]) \o WordBytes(h[3]) \o WordBytes(h[4])
            \o WordBytes(h[5]) \o WordBytes(h[6]) \o WordBytes(h[7]) \o WordBytes(h[8])))

-----------------------------------------------------------------------------
(* Python int: little-endian base-65536 digits, no most-significant zero   *)

\* n * m + a, for small m and a
RECURSIVE IntMulAddFrom(_, _, _, _)
IntMulAddFrom(n, m, carry, i) ==
    IF i > Len(n) THEN (IF carry = 0 THEN <<>> ELSE <<carry>>)
    ELSE LET v == (n[i] * m) + carry
         IN  <<v % 65536>> \o IntMulAddFrom(n, m, v \div 65536, i + 1)
IntMulAdd(n, m, a) == IntMulAddFrom(n, m, a, 1)

RECURSIVE BitLengthSmall(_)
BitLengthSmall(d) == IF d = 0 THEN 0 ELSE 1 + BitLengthSmall(d \div 2)

\* int.bit_length()
IntBitLength(n) ==
    IF n = <<>> THEN 0 ELSE (16 * (Len(n) - 1)) + BitLengthSmall(n[Len(n)])

\* byte k of n, k = 0 for the least significant
IntByte(n, k) ==
    LET d == IF (k \div 2) + 1 <= Len(n) THEN n[(k \div 2) + 1] ELSE 0
    IN  IF k % 2 = 0 THEN d % 256 ELSE d \div 256

\* byteorder='little'
IntToBytesLittleEndian(n, length) ==
    SubSeq([k \in 1..length |-> IntByte(n, k - 1)], 1, length)

\* int.to_bytes(length, byteorder='big')
IntToBytes(n, length) ==
    SubSeq([k \in 1..length |-> IntByte(n, length - k)], 1, length)

-----------------------------------------------------------------------------
(* EmojiCodec._base58_decode and EmojiCodec.validate_base58check           *)

\* decoded = decoded + index: the position of a symbol no longer counts
Base58AccumulateSum(alphabet, address) ==
    Loop(LAMBDA st, i :
            IF st.raised THEN st
            ELSE IF ~Contains(alphabet, address[i])
            THEN [raised |-> TRUE, value |-> st.value]
            ELSE [raised |-> FALSE,
                  value |-> IntMulAdd(st.value, 1, IndexOf(alphabet, address[i]))],
         [raised |-> FALSE, value |-> <<>>], 1, Len(address))

\* the loop of _base58_decode; raised when alphabet.index(char) raises
Base58Accumulate(alphabet, address) ==
    Loop(LAMBDA st, i :
            IF st.raised THEN st
            ELSE IF ~Contains(alphabet, address[i])
            THEN [raised |-> TRUE, value |-> st.value]
            ELSE [raised |-> FALSE,
                  value |-> IntMulAdd(st.value, 58, IndexOf(alphabet, address[i]))],
         [raised |-> FALSE, value |-> <<>>], 1, Len(address))

\* the zero bytes of the leading '1' symbols are not put back
Base58DecodeWithoutLeadingZeros(self, address) ==
    With(Base58Accumulate(self.base58_alphabet, address), LAMBDA acc :
        IF acc.raised THEN [raised |-> TRUE, bytes |-> <<>>]
        ELSE [raised |-> FALSE,
              bytes |-> IntToBytes(acc.value, (IntBitLength(acc.value) + 7) \div 8)])

_base58_decode(self, address) ==
    With(Base58Accumulate(self.base58_alphabet, address), LAMBDA acc :
        IF acc.raised THEN [raised |-> TRUE, bytes |-> <<>>]
        ELSE
    With(acc.value, LAMBDA decoded :
    With(IntToBytes(decoded, (IntBitLength(decoded) + 7) \div 8), LAMBDA result :
    With(Len(address) - Len(LStrip(address, 49)), LAMBDA num_leading_ones :
        [raised |-> FALSE, bytes |-> Repeat(0, num_leading_ones) \o result]))))

\* the scan for a character outside the alphabet starts at the second character
FirstInvalidAfterFirst(alphabet, address) ==
    LET Bad == {i \in 2..Len(address) : ~Contains(alphabet, address[i])}
    IN  IF Bad = {} THEN 0
        ELSE address[CHOOSE i \in Bad : \A j \in Bad : i <= j]

\* first character of address that is not in the alphabet (0: none)
FirstInvalid(alphabet, address) ==
    LET Bad == {i \in 1..Len(address) : ~Contains(alphabet, address[i])}
    IN  IF Bad = {} THEN 0
        ELSE address[CHOOSE i \in Bad : \A j \in Bad : i <= j]

\* the checksum is the first 4 bytes of one hash, not of the hash of the hash
SingleHashChecksum(payload) == SubSeq(Sha256(payload), 1, 4)

\* hashlib.sha256(hashlib.sha256(payload).digest()).digest()[:4]
ExpectedChecksum(payload) ==
    With(Sha256(Sha256(payload)), LAMBDA hash_result : SubSeq(hash_result, 1, 4))

\* the length test admits 4 bytes
TooShortBelowFour(decoded) == Len(decoded) < 4

\* len(decoded) < 5
TooShort(decoded) == Len(decoded) < 5

\* returns (is_valid, error_message); steps lists the phases that ran
validate_base58check(self, address) ==
    With(FirstInvalid(self.base58_alphabet, address), LAMBDA bad :
        IF bad # 0 THEN
            [is_valid |-> FALSE, raised |-> FALSE,
             error |-> <<"Invalid character", bad>>,
             steps |-> <<"alphabet">>]
        ELSE
    With(_base58_decode(self, address), LAMBDA dec :
        IF dec.raised THEN
            [is_valid |-> FALSE, raised |-> FALSE,
             error |-> <<"Base58 decode error">>,
             steps |-> <<"alphabet", "decode">>]
        ELSE
    With(dec.bytes, LAMBDA decoded :
        IF TooShort(decoded) THEN
            [is_valid |-> FALSE, raised |-> FALSE,
             error |-> <<"Address too short", Len(decoded)>>,
             steps |-> <<"alphabet", "decode">>]
        ELSE
    With(DropLastN(decoded, 4), LAMBDA payload :
    With(LastN(decoded, 4), LAMBDA checksum :
    With(ExpectedChecksum(payload), LAMBDA expected_checksum :
        IF checksum # expected_checksum THEN
            [is_valid |-> FALSE, raised |-> FALSE,
             error |-> <<"Checksum mismatch", expected_checksum, checksum>>,
             steps |-> <<"alphabet", "decode", "checksum">>]
        ELSE
            [is_valid |-> TRUE, raised |-> FALSE,
             error |-> <<>>,
             steps |-> <<"alphabet", "decode", "checksum">>]))))))

-----------------------------------------------------------------------------
(* Python dict: insertion-ordered sequence of <<key, value>>, unique keys  *)

DictHas(d, k) == \E i \in 1..Len(d) : d[i][1] = k
DictGet(d, k) == d[CHOOSE i \in 1..Len(d) : d[i][1] = k][2]
DictKeys(d) == {d[i][1] : i \in 1..Len(d)}

\* d[k] = v : overwrite in place, or insert at the end
DictReplace(d, k, v) ==
    SubSeq([i \in 1..Len(d) |-> IF d[i][1] = k THEN <<k, v>> ELSE d[i]], 1, Len(d))
DictSet(d, k, v) == IF DictHas(d, k) THEN DictReplace(d, k, v) ELSE Append(d, <<k, v>>)

-----------------------------------------------------------------------------
(* EmojiCodec._split_emoji                                                 *)

VS16 == 65039
VS15 == 65038
SkinToneFirst == 127995
SkinToneLast == 127999
ZWJ == 8205

\* while i < len(s) and s[i] in [U+FE0F, U+FE0E]: emoji += s[i]; i += 1
\* the variation selectors are passed over and not appended
RECURSIVE TakeVariationSelectorsDropping(_, _, _)
TakeVariationSelectorsDropping(s, i, emoji) ==
    IF i <= Len(s) /\ s[i] \in {VS16, VS15}
    THEN TakeVariationSelectorsDropping(s, i + 1, emoji)
    ELSE [i |-> i, emoji |-> emoji]

RECURSIVE TakeVariationSelectors(_, _, _)
TakeVariationSelectors(s, i, emoji) ==
    IF i <= Len(s) /\ s[i] \in {VS16, VS15}
    THEN TakeVariationSelectors(s, i + 1, Append(emoji, s[i]))
    ELSE [i |-> i, emoji |-> emoji]

\* while i < len(s) and '\U0001F3FB' <= s[i] <= '\U0001F3FF': ...
RECURSIVE TakeSkinTones(_, _, _)
TakeSkinTones(s, i, emoji) ==
    IF i <= Len(s) /\ SkinToneFirst <= s[i] /\ s[i] <= SkinToneLast
    THEN TakeSkinTones(s, i + 1, Append(emoji, s[i]))
    ELSE [i |-> i, emoji |-> emoji]

\* the joiner itself is not appended, only the character after it
RECURSIVE TakeJoinedWithoutJoiner(_, _, _)
TakeJoinedWithoutJoiner(s, i, emoji) ==
    IF i <= Len(s) /\ s[i] = ZWJ
    THEN IF i + 1 <= Len(s)
         THEN TakeJoinedWithoutJoiner(s, i + 2, Append(emoji, s[i + 1]))
         ELSE TakeJoinedWithoutJoiner(s, i + 1, emoji)
    ELSE [i |-> i, emoji |-> emoji]

\* while i < len(s) and s[i] == U+200D: take the joiner and the next character
RECURSIVE TakeJoined(_, _, _)
TakeJoined(s, i, emoji) ==
    IF i <= Len(s) /\ s[i] = ZWJ
    THEN IF i + 1 <= Len(s)
         THEN TakeJoined(s, i + 2, Append(Append(emoji, s[i]), s[i + 1]))
         ELSE TakeJoined(s, i + 1, Append(emoji, s[i]))
    ELSE [i |-> i, emoji |-> emoji]

\* one turn of the outer loop, if the string is not yet used up
SplitStep(s, st) ==
    IF st.i > Len(s) THEN st
    ELSE
    With(TakeVariationSelectors(s, st.i + 1, <<s[st.i]>>), LAMBDA a :
    With(TakeSkinTones(s, a.i, a.emoji), LAMBDA b :
    With(TakeJoined(s, b.i, b.emoji), LAMBDA c :
        [i |-> c.i, emoji_list |-> Append(st.emoji_list, c.emoji)])))

\* every code point is taken as an emoji of its own
SplitCodePoints(emoji_string) ==
    SubSeq([i \in 1..Len(emoji_string) |-> <<emoji_string[i]>>], 1, Len(emoji_string))

_split_emoji(emoji_string) ==
    Loop(LAMBDA st, turn : SplitStep(emoji_string, st),
         [i |-> 1, emoji_list |-> <<>>], 1, Len(emoji_string)).emoji_list

-----------------------------------------------------------------------------
(* EmojiCodec.encode and EmojiCodec.decode                                 *)

Placeholder == 10067   \* U+2753, the glyph encode writes for an unknown character
Sentinel == 63         \* '?', the character decode writes for an unknown emoji

\* an unknown character is recorded, and nothing is written for it
EncodeLoopSkipping(self, base58_address) ==
    Loop(LAMBDA st, k :
            LET char == base58_address[k]
            IN  IF DictHas(self.mapping, char)
                THEN [emoji_address |->
                          st.emoji_address \o DictGet(self.mapping, char).emoji,
                      unknown_chars |-> st.unknown_chars]
                ELSE [emoji_address |-> st.emoji_address,
                      unknown_chars |-> Append(st.unknown_chars, char)],
         [emoji_address |-> <<>>, unknown_chars |-> <<>>], 1, Len(base58_address))

EncodeLoop(self, base58_address) ==
    Loop(LAMBDA st, k :
            LET char == base58_address[k]
            IN  IF DictHas(self.mapping, char)
                THEN [emoji_address |->
                          st.emoji_address \o DictGet(self.mapping, char).emoji,
                      unknown_chars |-> st.unknown_chars]
                ELSE [emoji_address |-> st.emoji_address \o <<Placeholder>>,
                      unknown_chars |-> Append(st.unknown_chars, char)],
         [emoji_address |-> <<>>, unknown_chars |-> <<>>], 1, Len(base58_address))

\* returns (emoji_address, success)
encode(self, base58_address) ==
    With(EncodeLoop(self, base58_address), LAMBDA r :
        [emoji_address |-> r.emoji_address,
         success |-> Len(r.unknown_chars) = 0,
         unknown_chars |-> r.unknown_chars])

\* an unknown emoji is written as '?', and not recorded
DecodeLoopNotRecording(self, emoji_list) ==
    Loop(LAMBDA st, k :
            LET emoji == emoji_list[k]
            IN  IF DictHas(self.reverse_mapping, emoji)
                THEN [base58_address |->
                          Append(st.base58_address, DictGet(self.reverse_mapping, emoji)),
                      unknown_emoji |-> st.unknown_emoji]
                ELSE [base58_address |-> Append(st.base58_address, Sentinel),
                      unknown_emoji |-> st.unknown_emoji],
         [base58_address |-> <<>>, unknown_emoji |-> <<>>], 1, Len(emoji_list))

DecodeLoop(self, emoji_list) ==
    Loop(LAMBDA st, k :
            LET emoji == emoji_list[k]
            IN  IF DictHas(self.reverse_mapping, emoji)
                THEN [base58_address |->
                          Append(st.base58_address, DictGet(self.reverse_mapping, emoji)),
                      unknown_emoji |-> st.unknown_emoji]
                ELSE [base58_address |-> Append(st.base58_address, Sentinel),
                      unknown_emoji |-> Append(st.unknown_emoji, emoji)],
         [base58_address |-> <<>>, unknown_emoji |-> <<>>], 1, Len(emoji_list))

\* an emoji the reverse table does not hold is looked up with U+FE0F added
DecodeLenient(self, emoji_address) ==
    With(_split_emoji(emoji_address), LAMBDA emoji_list :
    With(DecodeLoop(self, [k \in 1..Len(emoji_list) |->
                              IF DictHas(self.reverse_mapping, emoji_list[k])
                              THEN emoji_list[k]
                              ELSE Append(emoji_list[k], 65039)]), LAMBDA r :
        [base58_address |-> r.base58_address,
         success |-> Len(r.unknown_emoji) = 0,
         unknown_emoji |-> r.unknown_emoji]))

\* returns (base58_address, success)
decode(self, emoji_address) ==
    With(_split_emoji(emoji_address), LAMBDA emoji_list :
    With(DecodeLoop(self, emoji_list), LAMBDA r :
        [base58_address |-> r.base58_address,
         success |-> Len(r.unknown_emoji) = 0,
         unknown_emoji |-> r.unknown_emoji]))

-----------------------------------------------------------------------------
(* EmojiCodec.scan, EmojiCodec._extract_emoji_from_text and                *)
(* EmojiCodec.extract_from_text                                            *)

\* None for the 'base58' entry of a result that never decoded: no string,
\* since a string holds code points only
None == <<-1>>

\* the checksum is validated whether or not the decoding succeeded
ScanValidatingAnyway(self, emoji_address, validate) ==
    With(decode(self, emoji_address), LAMBDA d :
    With(validate_base58check(self, d.base58_address), LAMBDA v :
        [emoji |-> emoji_address, base58 |-> d.base58_address,
         decode_success |-> d.success,
         checksum_valid |-> validate /\ v.is_valid,
         errors |-> (IF d.success THEN <<>>
                     ELSE << <<"Failed to decode emoji address">> >>)
                    \o (IF ~validate THEN <<>>
                        ELSE IF ~v.is_valid
                        THEN << <<"Checksum validation failed">> \o v.error >>
                        ELSE << <<"Checksum valid">> >>),
         steps |-> IF validate THEN <<"decode", "validate">> ELSE <<"decode">>]))

scan(self, emoji_address, validate) ==
    With(decode(self, emoji_address), LAMBDA d :
        IF ~d.success THEN
            [emoji |-> emoji_address, base58 |-> d.base58_address,
             decode_success |-> FALSE, checksum_valid |-> FALSE,
             errors |-> << <<"Failed to decode emoji address">> >>,
             steps |-> <<"decode">>]
        ELSE IF validate THEN
    With(validate_base58check(self, d.base58_address), LAMBDA v :
            [emoji |-> emoji_address, base58 |-> d.base58_address,
             decode_success |-> TRUE, checksum_valid |-> v.is_valid,
             errors |-> IF ~v.is_valid
                        THEN << <<"Checksum validation failed">> \o v.error >>
                        ELSE << <<"Checksum valid">> >>,
             steps |-> <<"decode", "validate">>])
        ELSE
            [emoji |-> emoji_address, base58 |-> d.base58_address,
             decode_success |-> TRUE, checksum_valid |-> FALSE,
             errors |-> <<>>,
             steps |-> <<"decode">>])

\* the character class of emoji_pattern
InEmojiPattern(c) ==
    \/ 127744 <= c /\ c <= 129791      \* U+1F300-U+1FAFF
    \/ 126976 <= c /\ c <= 127023      \* U+1F000-U+1F02F
    \/ 127136 <= c /\ c <= 127231      \* U+1F0A0-U+1F0FF
    \/ 9728 <= c /\ c <= 10175         \* U+2600-U+27BF
    \/ 128512 <= c /\ c <= 128591      \* U+1F600-U+1F64F
    \/ 128640 <= c /\ c <= 128767      \* U+1F680-U+1F6FF
    \/ 9984 <= c /\ c <= 10175         \* U+2700-U+27BF
    \/ 129280 <= c /\ c <= 129535      \* U+1F900-U+1F9FF
    \/ 129648 <= c /\ c <= 129791      \* U+1FA70-U+1FAFF
    \/ c = 11088                       \* U+2B50
    \/ c = 10084                       \* U+2764
    \/ 8986 <= c /\ c <= 8987          \* U+231A-U+231B
    \/ 9193 <= c /\ c <= 9203          \* U+23E9-U+23F3
    \/ 9208 <= c /\ c <= 9210          \* U+23F8-U+23FA
    \/ c = 65039                       \* U+FE0F

\* ''.join(emoji_pattern.findall(text)): the runs of class characters, joined
\* ''.join(emoji_pattern.findall(text))
_extract_emoji_from_text(text) == SelectSeq(text, InEmojiPattern)

\* the validation is left out
ExtractDecodedUnvalidated(self, text, extracted_emoji, validate) ==
    With(decode(self, extracted_emoji), LAMBDA d :
        [text |-> text, extracted_emoji |-> extracted_emoji,
         base58 |-> d.base58_address,
         decode_success |-> d.success, checksum_valid |-> FALSE,
         errors |-> IF d.success THEN <<>>
                    ELSE << <<"Failed to decode extracted emoji">> >>,
         start_index |-> 0, steps |-> <<"extract", "decode">>])

\* extract_from_text once some emoji was extracted
ExtractDecoded(self, text, extracted_emoji, validate) ==
    With(decode(self, extracted_emoji), LAMBDA d :
        IF ~d.success THEN
            [text |-> text, extracted_emoji |-> extracted_emoji,
             base58 |-> d.base58_address,
             decode_success |-> FALSE, checksum_valid |-> FALSE,
             errors |-> << <<"Failed to decode extracted emoji">> >>,
             start_index |-> 0, steps |-> <<"extract", "decode">>]
        ELSE IF validate THEN
    With(validate_base58check(self, d.base58_address), LAMBDA v :
            [text |-> text, extracted_emoji |-> extracted_emoji,
             base58 |-> d.base58_address,
             decode_success |-> TRUE, checksum_valid |-> v.is_valid,
             errors |-> IF ~v.is_valid
                        THEN << <<"Checksum validation failed">> \o v.error >>
                        ELSE << <<"Checksum valid - Address found!">> >>,
             start_index |-> 0, steps |-> <<"extract", "decode", "validate">>])
        ELSE
            [text |-> text, extracted_emoji |-> extracted_emoji,
             base58 |-> d.base58_address,
             decode_success |-> TRUE, checksum_valid |-> FALSE,
             errors |-> <<>>,
             start_index |-> 0, steps |-> <<"extract", "decode">>])

\* the test for an empty extraction is left out
ExtractWithoutEmptyCheck(self, text, validate) ==
    ExtractDecoded(self, text, _extract_emoji_from_text(text), validate)

\* returns the one-element list of results; this is that element
extract_from_text(self, text, validate) ==
    With(_extract_emoji_from_text(text), LAMBDA extracted_emoji :
        IF extracted_emoji = <<>> THEN
            [text |-> text, extracted_emoji |-> <<>>, base58 |-> None,
             decode_success |-> FALSE, checksum_valid |-> FALSE,
             errors |-> << <<"No emoji found in text">> >>,
             start_index |-> -1, steps |-> <<"extract">>]
        ELSE ExtractDecoded(self, text, extracted_emoji, validate))

-----------------------------------------------------------------------------
(* More string and list helpers                                            *)

\* Python: s[:n]
Take(s, n) == SubSeq(s, 1, IF n < Len(s) THEN n ELSE Len(s))

\* Python: pat in s, for strings
IsSubstring(pat, s) ==
    \E i \in 0..(Len(s) - Len(pat)) : SubSeq(s, i + 1, i + Len(pat)) = pat

\* Python: s.lower(), on the ASCII letters
Lower(s) ==
    [k \in 1..Len(s) |-> IF 65 <= s[k] /\ s[k] <= 90 THEN s[k] + 32 ELSE s[k]]

\* stable sort of <<key, item>> pairs, ascending by key (list.sort, sorted):
\* a pair goes after the pairs with a smaller key and after the earlier
\* pairs with the same key
StableSortByKey(pairs) ==
    With(SubSeq([k \in 1..Len(pairs) |->
                    1 + Cardinality({j \in 1..Len(pairs) :
                                        \/ pairs[j][1] < pairs[k][1]
                                        \/ pairs[j][1] = pairs[k][1] /\ j < k})],
                1, Len(pairs)),
         LAMBDA place :
            SubSeq([p \in 1..Len(pairs) |->
                       pairs[CHOOSE k \in 1..Len(pairs) : place[k] = p]],
                   1, Len(pairs)))

Items(pairs) == SubSeq([k \in 1..Len(pairs) |-> pairs[k][2]], 1, Len(pairs))

-----------------------------------------------------------------------------
(* base58_frequency.py: the priority order and create_optimal_mapping      *)

\* sample_addresses of analyze_sample_addresses
sample_addresses ==
    << \* 1A1zP1eP5QGefi2DMPTfTL5SLmv7DivfNa
       <<49, 65, 49, 122, 80, 49, 101, 80, 53, 81, 71, 101, 102, 105, 50,
         68, 77, 80, 84, 102, 84, 76, 53, 83, 76, 109, 118, 55, 68, 105,
         118, 102, 78, 97>>,
       \* 12cbQLTFMXRnSzktFkuoG3eHoMeFtpTu3S
       <<49, 50, 99, 98, 81, 76, 84, 70, 77, 88, 82, 110, 83, 122, 107, 116,
         70, 107, 117, 111, 71, 51, 101, 72, 111, 77, 101, 70, 116, 112, 84,
         117, 51, 83>>,
       \* 1HLoD9E4SDFFPDiYfNYnkBLQ85Y51J3Zb1
       <<49, 72, 76, 111, 68, 57, 69, 52, 83, 68, 70, 70, 80, 68, 105, 89,
         102, 78, 89, 110, 107, 66, 76, 81, 56, 53, 89, 53, 49, 74, 51, 90,
         98, 49>>,
       \* 1BvBMSEYstWetqTFn5Au4m4GFg7xJaNVN2
       <<49, 66, 118, 66, 77, 83, 69, 89, 115, 116, 87, 101, 116, 113, 84,
         70, 110, 53, 65, 117, 52, 109, 52, 71, 70, 103, 55, 120, 74, 97,
         78, 86, 78, 50>>,
       \* 1FeexV6bAHb8ybZjqQMjJrcCrHGW9sb6uF
       <<49, 70, 101, 101, 120, 86, 54, 98, 65, 72, 98, 56, 121, 98, 90,
         106, 113, 81, 77, 106, 74, 114, 99, 67, 114, 72, 71, 87, 57, 115,
         98, 54, 117, 70>>,
       \* 1CK6KHY6MHgYvmRQ4PAafKYDrg1ejbH1cE
       <<49, 67, 75, 54, 75, 72, 89, 54, 77, 72, 103, 89, 118, 109, 82, 81,
         52, 80, 65, 97, 102, 75, 89, 68, 114, 103, 49, 101, 106, 98, 72,
         49, 99, 69>>,
       \* 1JfbZRwdDHKZmuiZgYArJZhcuuzuw2HuMu
       <<49, 74, 102, 98, 90, 82, 119, 100, 68, 72, 75, 90, 109, 117, 105,
         90, 103, 89, 65, 114, 74, 90, 104, 99, 117, 117, 122, 117, 119, 50,
         72, 117, 77, 117>>,
       \* 1GdK9UzpHBzqzX2A9JFP3Di4weBwqgmoQA
       <<49, 71, 100, 75, 57, 85, 122, 112, 72, 66, 122, 113, 122, 88, 50,
         65, 57, 74, 70, 80, 51, 68, 105, 52, 119, 101, 66, 119, 113, 103,
         109, 111, 81, 65>>,
       \* 3J98t1WpEZ73CNmYviecrnyiWrnqRhWNLy
       <<51, 74, 57, 56, 116, 49, 87, 112, 69, 90, 55, 51, 67, 78, 109, 89,
         118, 105, 101, 99, 114, 110, 121, 105, 87, 114, 110, 113, 82, 104,
         87, 78, 76, 121>>,
       \* 3QJmV3qfvL9SuYo34YihAf3sRCW3qSinyC
       <<51, 81, 74, 109, 86, 51, 113, 102, 118, 76, 57, 83, 117, 89, 111,
         51, 52, 89, 105, 104, 65, 102, 51, 115, 82, 67, 87, 51, 113, 83,
         105, 110, 121, 67>>,
       \* 3Nxwenay9Z8Lc9JBiywExpnEFiLp6Afp8v
       <<51, 78, 120, 119, 101, 110, 97, 121, 57, 90, 56, 76, 99, 57, 74,
         66, 105, 121, 119, 69, 120, 112, 110, 69, 70, 105, 76, 112, 54, 65,
         102, 112, 56, 118>>,
       \* 3LYJfcfHPXYJreMsASk2jkn69LWEYKzexb
       <<51, 76, 89, 74, 102, 99, 102, 72, 80, 88, 89, 74, 114, 101, 77,
         115, 65, 83, 107, 50, 106, 107, 110, 54, 57, 76, 87, 69, 89, 75,
         122, 101, 120, 98>>,
       \* 1CounterpartyXXXXXXXXXXXXXXXUWLpVr
       <<49, 67, 111, 117, 110, 116, 101, 114, 112, 97, 114, 116, 121, 88,
         88, 88, 88, 88, 88, 88, 88, 88, 88, 88, 88, 88, 88, 88, 85, 87, 76,
         112, 86, 114>>,
       \* 1dice8EMZmqKvrGE4Qc9bUFf9PX3xaYDp
       <<49, 100, 105, 99, 101, 56, 69, 77, 90, 109, 113, 75, 118, 114, 71,
         69, 52, 81, 99, 57, 98, 85, 70, 102, 57, 80, 88, 51, 120, 97, 89,
         68, 112>>,
       \* 1FfmbHfnpaZjKFvyi1okTjJJusN455paPH
       <<49, 70, 102, 109, 98, 72, 102, 110, 112, 97, 90, 106, 75, 70, 118,
         121, 105, 49, 111, 107, 84, 106, 74, 74, 117, 115, 78, 52, 53, 53,
         112, 97, 80, 72>>,
       \* 1Dorian4RsruUgmdXpdPayZbZpcBhZxd9P
       <<49, 68, 111, 114, 105, 97, 110, 52, 82, 115, 114, 117, 85, 103,
         109, 100, 88, 112, 100, 80, 97, 121, 90, 98, 90, 112, 99, 66, 104,
         90, 120, 100, 57, 80>> >>

\* the Counter of characters, in first-seen order
analyze_sample_addresses ==
    Loop(LAMBDA counts, k :
            Loop(LAMBDA char_counter, i :
                    LET char == sample_addresses[k][i]
                    IN  IF Contains(BASE58_ALPHABET, char)
                        THEN DictSet(char_counter, char,
                                     IF DictHas(char_counter, char)
                                     THEN DictGet(char_counter, char) + 1 ELSE 1)
                        ELSE char_counter,
                 counts, 1, Len(sample_addresses[k])),
         <<>>, 1, Len(sample_addresses))

\* Counter.most_common(): by count, largest first, ties in first-seen order
NegatedCounts(counter) ==
    [k \in 1..Len(counter) |-> <<0 - counter[k][2], counter[k][1]>>]
most_common(counter) == Items(StableSortByKey(NegatedCounts(counter)))

Without(s, excluded) == SelectSeq(s, LAMBDA c : c \notin excluded)

\* for char in BASE58_ALPHABET: if char not in priority_mapping: append it
AppendMissing(priority, alphabet) ==
    Loop(LAMBDA acc, i :
            IF Contains(acc, alphabet[i]) THEN acc ELSE Append(acc, alphabet[i]),
         priority, 1, Len(alphabet))

\* priority_mapping of create_optimal_mapping: '1', '3', then by frequency,
\* then the characters no sample address holds
priority_mapping ==
    AppendMissing(<<49, 51>> \o Without(most_common(analyze_sample_addresses), {49, 51}),
                  BASE58_ALPHABET)

\* the loop that fills the mapping, in either builder: the i-th character
\* of the order (i counted from 0) gets the i-th glyph while glyphs last
AssignFrom(order, entries) ==
    Loop(LAMBDA mapping, i :
            IF i < Len(entries) THEN DictSet(mapping, order[i + 1], entries[i + 1])
            ELSE mapping,
         <<>>, 0, Len(order) - 1)

\* the priority recorded is the index counted from 0
DistinctEntryFromZero(candidate, i) ==
    [emoji |-> candidate.emoji, name |-> candidate.name,
     distinctiveness |-> candidate.distinctiveness, priority |-> i]

\* mapping[char] of create_optimal_mapping
DistinctEntry(candidate, i) ==
    [emoji |-> candidate.emoji, name |-> candidate.name,
     distinctiveness |-> candidate.distinctiveness, priority |-> i + 1]

\* returns (mapping, priority_mapping)
create_optimal_mapping(candidates) ==
    [mapping |-> AssignFrom(Take(priority_mapping, 58),
                            [k \in 1..Len(candidates) |->
                                DistinctEntry(candidates[k], k - 1)]),
     priority_mapping |-> priority_mapping]

\* the file base58_frequency.main saves (json.dump keeps keys, order, values)
DistinctMappingFile(candidates) ==
    With(create_optimal_mapping(candidates), LAMBDA r :
        [base58_alphabet |-> BASE58_ALPHABET,
         mapping |-> r.mapping,
         priority_order |-> Take(r.priority_mapping, 58)])

-----------------------------------------------------------------------------
(* visual_similarity.py: the candidate pool written to top_candidates.json *)

\* a metadata entry is [emoji, codepoint, name, status]; codepoint, the
\* space-separated hexadecimal string, is held as the code points it lists
HasCodepoint(codepoint, cp) == Contains(codepoint, cp)

\* codepoint.startswith('1F1')
StartsWith1F1(codepoint) ==
    /\ codepoint # <<>>
    /\ \/ codepoint[1] = 497
       \/ 7952 <= codepoint[1] /\ codepoint[1] <= 7967
       \/ 127232 <= codepoint[1] /\ codepoint[1] <= 127487

IsProblematic(emoji) ==
    LET name == Lower(emoji.name)
        codepoint == emoji.codepoint
    IN  \/ \E tone \in {127995, 127996, 127997, 127998, 127999} :
              HasCodepoint(codepoint, tone)
        \/ IsSubstring(<<102, 108, 97, 103>>, name)   \* 'flag'
        \/ StartsWith1F1(codepoint)
        \/ HasCodepoint(codepoint, 8205)
        \/ IsSubstring(<<107, 101, 121, 99, 97, 112>>, name)   \* 'keycap'
        \/ HasCodepoint(codepoint, 8419)

\* EmojiSimilarityAnalyzer.__init__: self.emoji_list
fully_qualified(all_emoji) ==
    SelectSeq(all_emoji, LAMBDA e : e.status = "fully-qualified")

filter_problematic_emoji(emoji_list) ==
    SelectSeq(emoji_list, LAMBDA emoji : ~IsProblematic(emoji))

n_candidates == 150

\* ranked, before the sort, each entry paired with its sort key
Ranked(emoji_list, distinctiveness_scores) ==
    With(SelectSeq(emoji_list,
                   LAMBDA emoji : DictHas(distinctiveness_scores, emoji.emoji)),
         LAMBDA scored :
            SubSeq([k \in 1..Len(scored) |->
                       <<DictGet(distinctiveness_scores, scored[k].emoji),
                         [emoji |-> scored[k].emoji,
                          name |-> scored[k].name,
                          codepoint |-> scored[k].codepoint,
                          distinctiveness |->
                              DictGet(distinctiveness_scores, scored[k].emoji)]>>],
                   1, Len(scored)))

\* ranked[:n] without the sort
SelectTopCandidatesUnsorted(emoji_list, distinctiveness_scores, n) ==
    Take(Items(Ranked(emoji_list, distinctiveness_scores)), n)

select_top_candidates(emoji_list, distinctiveness_scores, n) ==
    Take(Items(StableSortByKey(Ranked(emoji_list, distinctiveness_scores))), n)

-----------------------------------------------------------------------------
(* emoji_frequency.py: create_steganographic_mapping                       *)

\* the list built by get_common_emoji_list
common_emoji ==
    << \* U+1F602  face with tears of joy
       [emoji |-> <<128514>>, usage_tier |-> 1,
        name |-> <<102, 97, 99, 101, 32, 119, 105, 116, 104, 32, 116, 101, 97, 114,
          115, 32, 111, 102, 32, 106, 111, 121>>],
       \* U+2764 U+FE0F  red heart
       [emoji |-> <<10084, 65039>>, usage_tier |-> 1,
        name |-> <<114, 101, 100, 32, 104, 101, 97, 114, 116>>],
       \* U+1F970  smiling face with hearts
       [emoji |-> <<129392>>, usage_tier |-> 1,
        name |-> <<115, 109, 105, 108, 105, 110, 103, 32, 102, 97, 99, 101, 32, 119,
          105, 116, 104, 32, 104, 101, 97, 114, 116, 115>>],
       \* U+1F60D  smiling face with heart-eyes
       [emoji |-> <<128525>>, usage_tier |-> 1,
        name |-> <<115, 109, 105, 108, 105, 110, 103, 32, 102, 97, 99, 101, 32, 119,
          105, 116, 104, 32, 104, 101, 97, 114, 116, 45, 101, 121, 101, 115>>],
       \* U+1F60A  smiling face with smiling eyes
       [emoji |-> <<128522>>, usage_tier |-> 1,
        name |-> <<115, 109, 105, 108, 105, 110, 103, 32, 102, 97, 99, 101, 32, 119,
          105, 116, 104, 32, 115, 109, 105, 108, 105, 110, 103, 32, 101,
          121, 101, 115>>],
       \* U+1F389  party popper
       [emoji |-> <<127881>>, usage_tier |-> 2,
        name |-> <<112, 97, 114, 116, 121, 32, 112, 111, 112, 112, 101, 114>>],
       \* U+1F62D  loudly crying face
       [emoji |-> <<128557>>, usage_tier |-> 2,
        name |-> <<108, 111, 117, 100, 108, 121, 32, 99, 114, 121, 105, 110, 103, 32,
          102, 97, 99, 101>>],
       \* U+1F618  face blowing a kiss
       [emoji |-> <<128536>>, usage_tier |-> 2,
        name |-> <<102, 97, 99, 101, 32, 98, 108, 111, 119, 105, 110, 103, 32, 97,
          32, 107, 105, 115, 115>>],
       \* U+1F97A  pleading face
       [emoji |-> <<129402>>, usage_tier |-> 2,
        name |-> <<112, 108, 101, 97, 100, 105, 110, 103, 32, 102, 97, 99, 101>>],
       \* U+1F923  rolling on the floor laughing
       [emoji |-> <<129315>>, usage_tier |-> 2,
        name |-> <<114, 111, 108, 108, 105, 110, 103, 32, 111, 110, 32, 116, 104,
          101, 32, 102, 108, 111, 111, 114, 32, 108, 97, 117, 103, 104, 105,
          110, 103>>],
       \* U+1F495  two hearts
       [emoji |-> <<128149>>, usage_tier |-> 2,
        name |-> <<116, 119, 111, 32, 104, 101, 97, 114, 116, 115>>],
       \* U+2728  sparkles
       [emoji |-> <<10024>>, usage_tier |-> 2,
        name |-> <<115, 112, 97, 114, 107, 108, 101, 115>>],
       \* U+1F64F  folded hands
       [emoji |-> <<128591>>, usage_tier |-> 2,
        name |-> <<102, 111, 108, 100, 101, 100, 32, 104, 97, 110, 100, 115>>],
       \* U+1F601  beaming face with smiling eyes
       [emoji |-> <<128513>>, usage_tier |-> 2,
        name |-> <<98, 101, 97, 109, 105, 110, 103, 32, 102, 97, 99, 101, 32, 119,
          105, 116, 104, 32, 115, 109, 105, 108, 105, 110, 103, 32, 101,
          121, 101, 115>>],
       \* U+1F496  sparkling heart
       [emoji |-> <<128150>>, usage_tier |-> 2,
        name |-> <<115, 112, 97, 114, 107, 108, 105, 110, 103, 32, 104, 101, 97, 114,
          116>>],
       \* U+1F44D  thumbs up
       [emoji |-> <<128077>>, usage_tier |-> 3,
        name |-> <<116, 104, 117, 109, 98, 115, 32, 117, 112>>],
       \* U+1F525  fire
       [emoji |-> <<128293>>, usage_tier |-> 3,
        name |-> <<102, 105, 114, 101>>],
       \* U+1F4AA  flexed biceps
       [emoji |-> <<128170>>, usage_tier |-> 3,
        name |-> <<102, 108, 101, 120, 101, 100, 32, 98, 105, 99, 101, 112, 115>>],
       \* U+1F31F  glowing star
       [emoji |-> <<127775>>, usage_tier |-> 3,
        name |-> <<103, 108, 111, 119, 105, 110, 103, 32, 115, 116, 97, 114>>],
       \* U+1F609  winking face
       [emoji |-> <<128521>>, usage_tier |-> 3,
        name |-> <<119, 105, 110, 107, 105, 110, 103, 32, 102, 97, 99, 101>>],
       \* U+1F917  hugging face
       [emoji |-> <<129303>>, usage_tier |-> 3,
        name |-> <<104, 117, 103, 103, 105, 110, 103, 32, 102, 97, 99, 101>>],
       \* U+1F60E  smiling face with sunglasses
       [emoji |-> <<128526>>, usage_tier |-> 3,
        name |-> <<115, 109, 105, 108, 105, 110, 103, 32, 102, 97, 99, 101, 32, 119,
          105, 116, 104, 32, 115, 117, 110, 103, 108, 97, 115, 115, 101,
          115>>],
       \* U+1F4AF  hundred points
       [emoji |-> <<128175>>, usage_tier |-> 3,
        name |-> <<104, 117, 110, 100, 114, 101, 100, 32, 112, 111, 105, 110, 116,
          115>>],
       \* U+1F64C  raising hands
       [emoji |-> <<128588>>, usage_tier |-> 3,
        name |-> <<114, 97, 105, 115, 105, 110, 103, 32, 104, 97, 110, 100, 115>>],
       \* U+1F499  blue heart
       [emoji |-> <<128153>>, usage_tier |-> 3,
        name |-> <<98, 108, 117, 101, 32, 104, 101, 97, 114, 116>>],
       \* U+1F914  thinking face
       [emoji |-> <<129300>>, usage_tier |-> 4,
        name |-> <<116, 104, 105, 110, 107, 105, 110, 103, 32, 102, 97, 99, 101>>],
       \* U+1F60C  relieved face
       [emoji |-> <<128524>>, usage_tier |-> 4,
        name |-> <<114, 101, 108, 105, 101, 118, 101, 100, 32, 102, 97, 99, 101>>],
       \* U+1F38A  confetti ball
       [emoji |-> <<127882>>, usage_tier |-> 4,
        name |-> <<99, 111, 110, 102, 101, 116, 116, 105, 32, 98, 97, 108, 108>>],
       \* U+1F49C  purple heart
       [emoji |-> <<128156>>, usage_tier |-> 4,
        name |-> <<112, 117, 114, 112, 108, 101, 32, 104, 101, 97, 114, 116>>],
       \* U+1F604  grinning face with smiling eyes
       [emoji |-> <<128516>>, usage_tier |-> 4,
        name |-> <<103, 114, 105, 110, 110, 105, 110, 103, 32, 102, 97, 99, 101, 32,
          119, 105, 116, 104, 32, 115, 109, 105, 108, 105, 110, 103, 32,
          101, 121, 101, 115>>],
       \* U+1F937  person shrugging
       [emoji |-> <<129335>>, usage_tier |-> 4,
        name |-> <<112, 101, 114, 115, 111, 110, 32, 115, 104, 114, 117, 103, 103,
          105, 110, 103>>],
       \* U+1F49A  green heart
       [emoji |-> <<128154>>, usage_tier |-> 4,
        name |-> <<103, 114, 101, 101, 110, 32, 104, 101, 97, 114, 116>>],
       \* U+1F388  balloon
       [emoji |-> <<127880>>, usage_tier |-> 4,
        name |-> <<98, 97, 108, 108, 111, 111, 110>>],
       \* U+1F973  partying face
       [emoji |-> <<129395>>, usage_tier |-> 4,
        name |-> <<112, 97, 114, 116, 121, 105, 110, 103, 32, 102, 97, 99, 101>>],
       \* U+1F607  smiling face with halo
       [emoji |-> <<128519>>, usage_tier |-> 4,
        name |-> <<115, 109, 105, 108, 105, 110, 103, 32, 102, 97, 99, 101, 32, 119,
          105, 116, 104, 32, 104, 97, 108, 111>>],
       \* U+1F929  star-struck
       [emoji |-> <<129321>>, usage_tier |-> 5,
        name |-> <<115, 116, 97, 114, 45, 115, 116, 114, 117, 99, 107>>],
       \* U+1F603  grinning face with big eyes
       [emoji |-> <<128515>>, usage_tier |-> 5,
        name |-> <<103, 114, 105, 110, 110, 105, 110, 103, 32, 102, 97, 99, 101, 32,
          119, 105, 116, 104, 32, 98, 105, 103, 32, 101, 121, 101, 115>>],
       \* U+1F643  upside-down face
       [emoji |-> <<128579>>, usage_tier |-> 5,
        name |-> <<117, 112, 115, 105, 100, 101, 45, 100, 111, 119, 110, 32, 102, 97,
          99, 101>>],
       \* U+1F49B  yellow heart
       [emoji |-> <<128155>>, usage_tier |-> 5,
        name |-> <<121, 101, 108, 108, 111, 119, 32, 104, 101, 97, 114, 116>>],
       \* U+1F62C  grimacing face
       [emoji |-> <<128556>>, usage_tier |-> 5,
        name |-> <<103, 114, 105, 109, 97, 99, 105, 110, 103, 32, 102, 97, 99, 101>>],
       \* U+1F91E  crossed fingers
       [emoji |-> <<129310>>, usage_tier |-> 5,
        name |-> <<99, 114, 111, 115, 115, 101, 100, 32, 102, 105, 110, 103, 101,
          114, 115>>],
       \* U+1F44F  clapping hands
       [emoji |-> <<128079>>, usage_tier |-> 5,
        name |-> <<99, 108, 97, 112, 112, 105, 110, 103, 32, 104, 97, 110, 100, 115>>],
       \* U+1F979  face holding back tears
       [emoji |-> <<129401>>, usage_tier |-> 5,
        name |-> <<102, 97, 99, 101, 32, 104, 111, 108, 100, 105, 110, 103, 32, 98,
          97, 99, 107, 32, 116, 101, 97, 114, 115>>],
       \* U+1F605  grinning face with sweat
       [emoji |-> <<128517>>, usage_tier |-> 5,
        name |-> <<103, 114, 105, 110, 110, 105, 110, 103, 32, 102, 97, 99, 101, 32,
          119, 105, 116, 104, 32, 115, 119, 101, 97, 116>>],
       \* U+1F44B  waving hand
       [emoji |-> <<128075>>, usage_tier |-> 5,
        name |-> <<119, 97, 118, 105, 110, 103, 32, 104, 97, 110, 100>>],
       \* U+1F381  wrapped gift
       [emoji |-> <<127873>>, usage_tier |-> 6,
        name |-> <<119, 114, 97, 112, 112, 101, 100, 32, 103, 105, 102, 116>>],
       \* U+1F340  four leaf clover
       [emoji |-> <<127808>>, usage_tier |-> 6,
        name |-> <<102, 111, 117, 114, 32, 108, 101, 97, 102, 32, 99, 108, 111, 118,
          101, 114>>],
       \* U+1F308  rainbow
       [emoji |-> <<127752>>, usage_tier |-> 6,
        name |-> <<114, 97, 105, 110, 98, 111, 119>>],
       \* U+2B50  star
       [emoji |-> <<11088>>, usage_tier |-> 6,
        name |-> <<115, 116, 97, 114>>],
       \* U+1F33A  hibiscus
       [emoji |-> <<127802>>, usage_tier |-> 6,
        name |-> <<104, 105, 98, 105, 115, 99, 117, 115>>],
       \* U+1F338  cherry blossom
       [emoji |-> <<127800>>, usage_tier |-> 6,
        name |-> <<99, 104, 101, 114, 114, 121, 32, 98, 108, 111, 115, 115, 111, 109>>],
       \* U+1F355  pizza
       [emoji |-> <<127829>>, usage_tier |-> 6,
        name |-> <<112, 105, 122, 122, 97>>],
       \* U+1F354  hamburger
       [emoji |-> <<127828>>, usage_tier |-> 6,
        name |-> <<104, 97, 109, 98, 117, 114, 103, 101, 114>>],
       \* U+2615  hot beverage
       [emoji |-> <<9749>>, usage_tier |-> 6,
        name |-> <<104, 111, 116, 32, 98, 101, 118, 101, 114, 97, 103, 101>>],
       \* U+1F3AE  video game
       [emoji |-> <<127918>>, usage_tier |-> 6,
        name |-> <<118, 105, 100, 101, 111, 32, 103, 97, 109, 101>>],
       \* U+26A1  high voltage
       [emoji |-> <<9889>>, usage_tier |-> 6,
        name |-> <<104, 105, 103, 104, 32, 118, 111, 108, 116, 97, 103, 101>>],
       \* U+1F319  crescent moon
       [emoji |-> <<127769>>, usage_tier |-> 6,
        name |-> <<99, 114, 101, 115, 99, 101, 110, 116, 32, 109, 111, 111, 110>>],
       \* U+2600 U+FE0F  sun
       [emoji |-> <<9728, 65039>>, usage_tier |-> 6,
        name |-> <<115, 117, 110>>],
       \* U+1F3B5  musical note
       [emoji |-> <<127925>>, usage_tier |-> 6,
        name |-> <<109, 117, 115, 105, 99, 97, 108, 32, 110, 111, 116, 101>>],
       \* U+1F3B6  musical notes
       [emoji |-> <<127926>>, usage_tier |-> 6,
        name |-> <<109, 117, 115, 105, 99, 97, 108, 32, 110, 111, 116, 101, 115>>],
       \* U+1F33B  sunflower
       [emoji |-> <<127803>>, usage_tier |-> 6,
        name |-> <<115, 117, 110, 102, 108, 111, 119, 101, 114>>],
       \* U+1F436  dog face
       [emoji |-> <<128054>>, usage_tier |-> 6,
        name |-> <<100, 111, 103, 32, 102, 97, 99, 101>>],
       \* U+1F431  cat face
       [emoji |-> <<128049>>, usage_tier |-> 6,
        name |-> <<99, 97, 116, 32, 102, 97, 99, 101>>] >>

\* base58_alphabet of create_steganographic_mapping
stego_base58_alphabet ==
    <<49, 50, 51, 52, 53, 54, 55, 56, 57, 65, 66, 67, 68, 69, 70, 71,
      72, 74, 75, 76, 77, 78, 80, 81, 82, 83, 84, 85, 86, 87, 88, 89,
      90, 97, 98, 99, 100, 101, 102, 103, 104, 105, 106, 107, 109, 110,
      111, 112, 113, 114, 115, 116, 117, 118, 119, 120, 121, 122>>

\* priority_order of create_steganographic_mapping
priority_order ==
    <<49, 51, 120, 112, 117, 98, 121, 122, 101, 102, 105, 70, 88, 89,
      72, 74, 90, 114, 76, 110, 57, 80, 65, 68, 109, 97, 99, 77, 118,
      69, 52, 81, 83, 78, 111, 87, 113, 75, 53, 116, 66, 71, 50, 84,
      82, 107, 56, 115, 103, 54, 106, 67, 119, 100, 86, 104, 85, 55>>

\* confusable_patterns: 'heart' -> the one allowed glyph, U+2764 U+FE0F
HeartPattern == <<104, 101, 97, 114, 116>>
HeartAllowed == {<<10084, 65039>>}

\* the loop that builds filtered_common; seen is ('heart' in seen_patterns)
FilterCommon(common) ==
    Loop(LAMBDA st, i :
            LET emoji_data == common[i]
                matches == /\ IsSubstring(HeartPattern, emoji_data.name)
                           /\ emoji_data.emoji \notin HeartAllowed
                is_confusable == matches /\ st.seen
            IN  [filtered_common |-> IF is_confusable THEN st.filtered_common
                                     ELSE Append(st.filtered_common, emoji_data),
                 seen |-> st.seen \/ matches],
         [filtered_common |-> <<>>, seen |-> FALSE], 1, Len(common)).filtered_common

HasEmoji(list, emoji) == \E k \in 1..Len(list) : list[k].emoji = emoji

\* every candidate is appended, also one that is in the list already
BackfillWithoutCheck(distinct_candidates, filtered) ==
    Loop(LAMBDA filtered_common, k :
            LET candidate == distinct_candidates[k]
            IN  IF Len(filtered_common) >= 58 THEN filtered_common
                ELSE Append(filtered_common,
                            [emoji |-> candidate.emoji, name |-> candidate.name,
                             usage_tier |-> 7,
                             distinctiveness |-> candidate.distinctiveness]),
         filtered, 1, Len(distinct_candidates))

\* the loop that fills filtered_common from the distinct candidates
Backfill(distinct_candidates, filtered) ==
    Loop(LAMBDA filtered_common, k :
            LET candidate == distinct_candidates[k]
            IN  IF Len(filtered_common) >= 58 THEN filtered_common
                ELSE IF ~HasEmoji(filtered_common, candidate.emoji)
                THEN Append(filtered_common,
                            [emoji |-> candidate.emoji, name |-> candidate.name,
                             usage_tier |-> 7,
                             distinctiveness |-> candidate.distinctiveness])
                ELSE filtered_common,
         filtered, 1, Len(distinct_candidates))

\* mapping[char] of create_steganographic_mapping
StegoEntry(emoji_data, i) ==
    [emoji |-> emoji_data.emoji, name |-> emoji_data.name,
     usage_tier |-> IF "usage_tier" \in DOMAIN emoji_data
                    THEN emoji_data.usage_tier ELSE 7,
     priority |-> i + 1]

\* the mapping create_steganographic_mapping returns
create_steganographic_mapping(distinct_candidates) ==
    With(FilterCommon(common_emoji), LAMBDA f :
    With(IF Len(f) < 58 THEN Backfill(distinct_candidates, f) ELSE f,
         LAMBDA filtered_common :
            AssignFrom(Take(priority_order, 58),
                       SubSeq([k \in 1..Len(filtered_common) |->
                                  StegoEntry(filtered_common[k], k - 1)],
                              1, Len(filtered_common)))))

\* the file create_steganographic_mapping saves
StegoMappingFile(distinct_candidates) ==
    [base58_alphabet |-> stego_base58_alphabet,
     mapping_strategy |-> "steganographic",
     mapping |-> create_steganographic_mapping(distinct_candidates),
     priority_order |-> Take(priority_order, 58)]

-----------------------------------------------------------------------------
(* EmojiCodec.__init__                                                     *)

\* the reverse table is keyed by the first code point of the emoji alone
BuildReverseBaseGlyph(mapping) ==
    Loop(LAMBDA reverse_mapping, k :
            DictSet(reverse_mapping, <<mapping[k][2].emoji[1]>>, mapping[k][1]),
         <<>>, 1, Len(mapping))

\* for base58_char, emoji_data in self.mapping.items(): ...
BuildReverse(mapping) ==
    Loop(LAMBDA reverse_mapping, k :
            DictSet(reverse_mapping, mapping[k][2].emoji, mapping[k][1]),
         <<>>, 1, Len(mapping))

\* the alphabet is read off the table's keys, not off 'base58_alphabet'
InitAlphabetFromKeys(data) ==
    [base58_alphabet |-> SubSeq([k \in 1..Len(data.mapping) |-> data.mapping[k][1]],
                                1, Len(data.mapping)),
     mapping |-> data.mapping,
     mapping_strategy |-> IF "mapping_strategy" \in DOMAIN data
                          THEN data.mapping_strategy ELSE "distinct",
     reverse_mapping |-> BuildReverse(data.mapping)]

\* the codec object built from the loaded file
__init__(data) ==
    [base58_alphabet |-> data.base58_alphabet,
     mapping |-> data.mapping,
     mapping_strategy |-> IF "mapping_strategy" \in DOMAIN data
                          THEN data.mapping_strategy ELSE "distinct",
     reverse_mapping |-> BuildReverse(data.mapping)]

-----------------------------------------------------------------------------
(* Inputs                                                                  *)

MaxAddrLen == 3
MaxGlyphLen == 3
MaxTextLen == 2
SmallPoolSize == 6

SeqsUpTo(S, n) == UNION {[1..k -> S] : k \in 0..n}

\* entries of emoji_metadata.json the analyzer must drop, and two it keeps
special_metadata ==
    << \* U+1F1FA U+1F1F8  flag: United States
       [emoji |-> <<127482, 127480>>, codepoint |-> <<127482, 127480>>,
        name |-> <<102, 108, 97, 103, 58, 32, 85, 110, 105, 116, 101, 100, 32, 83, 116, 97, 116, 101, 115>>,
        status |-> "fully-qualified"],
       \* U+0031 U+FE0F U+20E3  keycap: 1
       [emoji |-> <<49, 65039, 8419>>, codepoint |-> <<49, 65039, 8419>>,
        name |-> <<107, 101, 121, 99, 97, 112, 58, 32, 49>>,
        status |-> "fully-qualified"],
       \* U+1F468 U+200D U+1F469 U+200D U+1F466  family: man, woman, boy
       [emoji |-> <<128104, 8205, 128105, 8205, 128102>>,
        codepoint |-> <<128104, 8205, 128105, 8205, 128102>>,
        name |-> <<102, 97, 109, 105, 108, 121, 58, 32, 109, 97, 110, 44, 32, 119, 111, 109, 97, 110, 44, 32, 98, 111, 121>>,
        status |-> "fully-qualified"],
       \* U+1F44B U+1F3FB  waving hand: light skin tone
       [emoji |-> <<128075, 127995>>, codepoint |-> <<128075, 127995>>,
        name |-> <<119, 97, 118, 105, 110, 103, 32, 104, 97, 110, 100, 58, 32, 108, 105, 103, 104, 116, 32, 115, 107, 105, 110, 32, 116, 111, 110, 101>>,
        status |-> "fully-qualified"],
       \* U+2764  red heart, unqualified
       [emoji |-> <<10084>>, codepoint |-> <<10084>>,
        name |-> <<114, 101, 100, 32, 104, 101, 97, 114, 116>>,
        status |-> "unqualified"],
       \* U+200D alone and U+1F3FB alone, listed as components
       [emoji |-> <<8205>>, codepoint |-> <<8205>>,
        name |-> <<122, 101, 114, 111, 32, 119, 105, 100, 116, 104, 32, 106, 111, 105, 110, 101, 114>>,
        status |-> "component"],
       [emoji |-> <<127995>>, codepoint |-> <<127995>>,
        name |-> <<108, 105, 103, 104, 116, 32, 115, 107, 105, 110, 32, 116, 111, 110, 101>>,
        status |-> "component"],
       \* U+1F984  unicorn
       [emoji |-> <<129412>>, codepoint |-> <<129412>>,
        name |-> <<117, 110, 105, 99, 111, 114, 110>>,
        status |-> "fully-qualified"],
       \* U+1F9F2  magnet
       [emoji |-> <<129522>>, codepoint |-> <<129522>>,
        name |-> <<109, 97, 103, 110, 101, 116>>,
        status |-> "fully-qualified"] >>

\* emoji_metadata.json: the entries above, then the everyday emoji
emoji_metadata ==
    special_metadata \o
    [i \in 1..Len(common_emoji) |->
        [emoji |-> common_emoji[i].emoji, codepoint |-> common_emoji[i].emoji,
         name |-> common_emoji[i].name, status |-> "fully-qualified"]]

\* distinctiveness scores in thousandths, for the emoji whose image hashed:
\* "rising" and "falling" along the list, "few" when only the first
\* SmallPoolSize images could be hashed
ScoresFor(emoji_list, kind) ==
    [i \in 1..(IF kind = "few" /\ SmallPoolSize < Len(emoji_list)
               THEN SmallPoolSize ELSE Len(emoji_list)) |->
        <<emoji_list[i].emoji, IF kind = "falling" THEN 1000 - (10 * i) ELSE 10 * i>>]

ScoreKinds == {"rising", "falling", "few"}

\* the list visual_similarity.main saves as top_candidates.json
VisualSimilarityCandidates(kind) ==
    With(filter_problematic_emoji(fully_qualified(emoji_metadata)),
         LAMBDA filtered_emoji :
            select_top_candidates(filtered_emoji, ScoresFor(filtered_emoji, kind),
                                  n_candidates))

\* the address demo.py validates: 1A1zP1eP5QGefi2DMPTfTL5SLmv7DivfNa
GenesisAddress ==
    <<49, 65, 49, 122, 80, 49, 101, 80, 53, 81, 71, 101, 102, 105, 50, 68,
      77, 80, 84, 102, 84, 76, 53, 83, 76, 109, 118, 55, 68, 105, 118, 102,
      78, 97>>

\* s with its final symbol replaced by c
ReplaceLast(s, c) == SubSeq(s, 1, Len(s) - 1) \o <<c>>

\* 1Wh4bh and 112edB6q: short strings whose checksum matches
ShortValidAddresses == {<<49, 87, 104, 52, 98, 104>>,
                        <<49, 49, 50, 101, 100, 66, 54, 113>>}

\* '1', '3', 'z', '7' of the alphabet, and '0' outside it
AddrSymbols == {49, 51, 122, 55, 48}

ExampleAddresses ==
    {GenesisAddress, ReplaceLast(GenesisAddress, 98), ReplaceLast(GenesisAddress, 48),
     <<49, 87, 104, 52, 98, 104>>}

Addresses == SeqsUpTo(AddrSymbols, MaxAddrLen) \cup ExampleAddresses

CandidateFiles == {VisualSimilarityCandidates(kind) : kind \in ScoreKinds}

MappingFiles ==
    {DistinctMappingFile(c) : c \in CandidateFiles}
        \cup {StegoMappingFile(c) : c \in CandidateFiles}

\* U+1F602, U+2764, U+FE0F, U+1F3FB, U+200D, U+2753
GlyphCodePoints == {128514, 10084, 65039, 127995, 8205, 10067}

\* what some codec wrote for an example address
ExampleGlyphStrings ==
    {encode(__init__(f), a).emoji_address : f \in MappingFiles, a \in ExampleAddresses}

GlyphStrings == SeqsUpTo(GlyphCodePoints, MaxGlyphLen) \cup ExampleGlyphStrings

\* 'h', ' ', U+1F602, U+2764, U+FE0F
TextCodePoints == {104, 32, 128514, 10084, 65039}

\* "pay " ahead of an example glyph string
ExampleTexts == {<<112, 97, 121, 32>> \o g : g \in ExampleGlyphStrings}

Texts == SeqsUpTo(TextCodePoints, MaxTextLen) \cup ExampleTexts

-----------------------------------------------------------------------------
(* The state machine                                                       *)

VARIABLES
    files,    \* the files under data/: name -> content, for the files that exist
    codec,    \* <<the EmojiCodec object>>, <<>> before construction
    pc,       \* "idle", or "returned" when a call has just returned
    last,     \* the call that has just returned: operation, argument, result
    hashes    \* self.hashes of the EmojiSimilarityAnalyzer: emoji -> its hashes

vars == <<files, codec, pc, last, hashes>>

NoCall == [op |-> "none", arg |-> <<>>, ret |-> <<>>]

Exists(name) == name \in DOMAIN files

\* the files after open(name, 'w') and json.dump(content)
Saved(name, content) ==
    [n \in DOMAIN files \cup {name} |-> IF n = name THEN content ELSE files[n]]

Init ==
    /\ files = [name \in {} |-> <<>>]
    /\ codec = <<>>
    /\ pc = "idle"
    /\ last = NoCall
    /\ hashes = <<>>

\* visual_similarity.main, run once: saves data/top_candidates.json
VisualSimilarityMain(kind) ==
    /\ pc = "idle"
    /\ ~Exists("top_candidates")
    /\ files' = Saved("top_candidates", VisualSimilarityCandidates(kind))
    /\ UNCHANGED <<codec, pc, last, hashes>>

\* base58_frequency.main: saves data/base58_emoji_mapping.json
Base58FrequencyMain ==
    /\ pc = "idle"
    /\ Exists("top_candidates")
    /\ files' = Saved("base58_emoji_mapping", DistinctMappingFile(files.top_candidates))
    /\ UNCHANGED <<codec, pc, last, hashes>>

\* emoji_frequency.create_steganographic_mapping: saves
\* data/base58_emoji_mapping_stego.json
CreateSteganographicMapping ==
    /\ pc = "idle"
    /\ Exists("top_candidates")
    /\ files' = Saved("base58_emoji_mapping_stego",
                      StegoMappingFile(files.top_candidates))
    /\ UNCHANGED <<codec, pc, last, hashes>>

\* EmojiCodec(mapping_file)
Construct(mapping_file) ==
    /\ pc = "idle"
    /\ Exists(mapping_file)
    /\ codec' = <<__init__(files[mapping_file])>>
    /\ UNCHANGED <<files, pc, last, hashes>>

\* the call empties the reverse table of the codec
CallClearingReverse(op, arg, ret) ==
    /\ pc = "idle"
    /\ codec # <<>>
    /\ last' = [op |-> op, arg |-> arg, ret |-> ret]
    /\ pc' = "returned"
    /\ codec' = <<[codec[1] EXCEPT !.reverse_mapping = <<>>]>>
    /\ UNCHANGED <<files, hashes>>

Call(op, arg, ret) ==
    /\ pc = "idle"
    /\ codec # <<>>
    /\ last' = [op |-> op, arg |-> arg, ret |-> ret]
    /\ pc' = "returned"
    /\ UNCHANGED <<files, codec, hashes>>

Encode(base58_address) == Call("encode", base58_address, encode(codec[1], base58_address))

Decode(emoji_address) == Call("decode", emoji_address, decode(codec[1], emoji_address))

ValidateBase58check(address) ==
    Call("validate_base58check", address, validate_base58check(codec[1], address))

Base58Decode(address) == Call("_base58_decode", address, _base58_decode(codec[1], address))

Scan(emoji_address, validate) ==
    Call("scan", <<emoji_address, validate>>, scan(codec[1], emoji_address, validate))

ExtractFromText(text, validate) ==
    Call("extract_from_text", <<text, validate>>, extract_from_text(codec[1], text, validate))

\* the caller takes the result; the codec keeps nothing of the call
Return ==
    /\ pc = "returned"
    /\ pc' = "idle"
    /\ last' = NoCall
    /\ UNCHANGED <<files, codec, hashes>>

Next ==
    \/ \E kind \in ScoreKinds : VisualSimilarityMain(kind)
    \/ Base58FrequencyMain
    \/ CreateSteganographicMapping
    \/ \E mapping_file \in {"base58_emoji_mapping", "base58_emoji_mapping_stego"} :
          Construct(mapping_file)
    \/ \E a \in Addresses : Encode(a)
    \/ \E g \in GlyphStrings : Decode(g)
    \/ \E a \in Addresses : ValidateBase58check(a)
    \/ \E a \in Addresses : Base58Decode(a)
    \/ \E g \in GlyphStrings, validate \in BOOLEAN : Scan(g, validate)
    \/ \E t \in Texts, validate \in BOOLEAN : ExtractFromText(t, validate)
    \/ Return

Spec == Init /\ [][Next]_vars

-----------------------------------------------------------------------------
(* Validation alone: a codec built from the pipeline's files is handed     *)
(* addresses; only validate_base58check and _base58_decode are called       *)

\* the files under data/ once all three generators have run
PipelineFiles(kind) ==
    [name \in {"top_candidates", "base58_emoji_mapping", "base58_emoji_mapping_stego"} |->
        IF name = "top_candidates" THEN VisualSimilarityCandidates(kind)
        ELSE IF name = "base58_emoji_mapping"
             THEN DistinctMappingFile(VisualSimilarityCandidates(kind))
             ELSE StegoMappingFile(VisualSimilarityCandidates(kind))]

\* the genesis address with its final symbol replaced by each alphabet symbol
\* (the genesis address itself among them)
GenesisFamily == {ReplaceLast(GenesisAddress, BASE58_ALPHABET[k]) : k \in 1..58}

\* '0', 'O', 'I', 'l', ' ', U+1F602
NonAlphabetSymbols == {48, 79, 73, 108, 32, 128514}

\* s with the symbol at position i replaced by c
ReplaceAt(s, i, c) == [k \in 1..Len(s) |-> IF k = i THEN c ELSE s[k]]

\* an address with one symbol outside the alphabet: first, middle or last
InvalidSymbolAddresses ==
    {ReplaceAt(a, i, c) : a \in {GenesisAddress, <<49, 87, 104, 52, 98, 104>>},
                          i \in {1, 3, 6}, c \in NonAlphabetSymbols}
        \cup {ReplaceLast(GenesisAddress, c) : c \in NonAlphabetSymbols}

MaxOnes == 7

\* '1' * n
OnesAddresses == {Repeat(49, n) : n \in 0..MaxOnes}

\* 3QJmnh (4 bytes), 1Wh4bh and 112edB6q (valid), zzzzzz, 1111z, 11zz
ShortAddresses ==
    ShortValidAddresses \cup
    {<<51, 81, 74, 109, 110, 104>>, <<122, 122, 122, 122, 122, 122>>,
     <<49, 49, 49, 49, 122>>, <<49, 49, 122, 122>>}

ChecksumAddresses ==
    GenesisFamily \cup InvalidSymbolAddresses \cup OnesAddresses
        \cup ShortAddresses \cup SeqsUpTo(AddrSymbols, MaxAddrLen)

InitBase58 ==
    /\ \E kind \in ScoreKinds : files = PipelineFiles(kind)
    /\ \E mapping_file \in {"base58_emoji_mapping", "base58_emoji_mapping_stego"} :
          codec = <<__init__(files[mapping_file])>>
    /\ pc = "idle"
    /\ last = NoCall
    /\ hashes = <<>>

NextBase58 ==
    \/ \E a \in ChecksumAddresses : ValidateBase58check(a)
    \/ \E a \in ChecksumAddresses : Base58Decode(a)
    \/ Return

SpecBase58 == InitBase58 /\ [][NextBase58]_vars

-----------------------------------------------------------------------------
(* scan, statement by statement: the result dictionary is built in place    *)
(* while pc runs from "scan_start" over "scan_decoded" to "returned"        *)

MaxScanGlyphLen == 2

ScanStrings == SeqsUpTo(GlyphCodePoints, MaxScanGlyphLen) \cup ExampleGlyphStrings

\* result = {'emoji': emoji_address, 'base58': None, ...}
ScanStart(emoji_address, validate) ==
    /\ pc = "idle"
    /\ codec # <<>>
    /\ last' = [op |-> "scan", arg |-> <<emoji_address, validate>>,
                ret |-> [emoji |-> emoji_address, base58 |-> None,
                         decode_success |-> FALSE, checksum_valid |-> FALSE,
                         errors |-> <<>>, steps |-> <<>>]]
    /\ pc' = "scan_start"
    /\ UNCHANGED <<files, codec, hashes>>

\* base58_address, decode_success = self.decode(emoji_address), and the
\* return when the decoding failed or no validation is asked for
ScanDecode ==
    /\ pc = "scan_start"
    /\ LET d == decode(codec[1], last.arg[1])
       IN  /\ last' = [last EXCEPT
                          !.ret.base58 = d.base58_address,
                          !.ret.decode_success = d.success,
                          !.ret.errors =
                              IF d.success THEN @
                              ELSE Append(@, <<"Failed to decode emoji address">>),
                          !.ret.steps = Append(@, "decode")]
           /\ pc' = IF d.success /\ last.arg[2] THEN "scan_decoded" ELSE "returned"
    /\ UNCHANGED <<files, codec, hashes>>

\* an invalid checksum sends the scan back to its start
ScanValidateRetrying ==
    /\ pc = "scan_decoded"
    /\ LET v == validate_base58check(codec[1], last.ret.base58)
       IN  /\ last' = [last EXCEPT
                          !.ret.checksum_valid = v.is_valid,
                          !.ret.errors =
                              IF ~v.is_valid
                              THEN Append(@, <<"Checksum validation failed">> \o v.error)
                              ELSE Append(@, <<"Checksum valid">>),
                          !.ret.steps = Append(@, "validate")]
           /\ pc' = IF v.is_valid THEN "returned" ELSE "scan_start"
    /\ UNCHANGED <<files, codec, hashes>>

\* is_valid, error_msg = self.validate_base58check(base58_address), and the return
ScanValidate ==
    /\ pc = "scan_decoded"
    /\ LET v == validate_base58check(codec[1], last.ret.base58)
       IN  last' = [last EXCEPT
                       !.ret.checksum_valid = v.is_valid,
                       !.ret.errors =
                           IF ~v.is_valid
                           THEN Append(@, <<"Checksum validation failed">> \o v.error)
                           ELSE Append(@, <<"Checksum valid">>),
                       !.ret.steps = Append(@, "validate")]
    /\ pc' = "returned"
    /\ UNCHANGED <<files, codec, hashes>>

NextScan ==
    \/ \E g \in ScanStrings, validate \in BOOLEAN : ScanStart(g, validate)
    \/ ScanDecode
    \/ ScanValidate
    \/ Return

\* a statement of scan is executed: pc moves on
ScanRuns ==
    /\ pc \in {"scan_start", "scan_decoded"}
    /\ pc' \in {"scan_decoded", "returned"}
    /\ pc' # pc

\* the method is synchronous: once called, its statements are executed one
\* after the other, none waits
SpecScan ==
    /\ InitBase58
    /\ [][NextScan]_vars
    /\ WF_pc(ScanRuns)

-----------------------------------------------------------------------------
(* _split_emoji alone, on strings of a base character, a variation          *)
(* selector, a skin tone modifier and the joiner                            *)

MaxSplitLen == 4

\* U+1F937 (person shrugging), U+2642 (male sign), U+FE0F, U+1F3FB, U+200D
SegmentCodePoints == {129335, 9794, VS16, SkinToneFirst, ZWJ}

SplitStrings == SeqsUpTo(SegmentCodePoints, MaxSplitLen)

SplitEmoji(emoji_string) ==
    Call("_split_emoji", emoji_string, _split_emoji(emoji_string))

NextSplit ==
    \/ \E s \in SplitStrings : SplitEmoji(s)
    \/ Return

SpecSplit == InitBase58 /\ [][NextSplit]_vars

-----------------------------------------------------------------------------
(* visual_similarity.py: the hashes, the confusable pairs and the          *)
(* distinctiveness scores. A float is the fraction [num, den] it stands    *)
(* for; 0/0 is nan, which compares false with everything.                  *)

Frac(num, den) == [num |-> num, den |-> den]

NaN == Frac(0, 0)

FracLess(a, b) == a.den # 0 /\ b.den # 0 /\ a.num * b.den < b.num * a.den

\* numpy.mean of fractions with one denominator: their sum over their count;
\* nan for the empty list
np_mean(values) ==
    IF values = <<>>
    THEN NaN
    ELSE Frac(Loop(LAMBDA sum, k : sum + values[k].num, 0, 1, Len(values)),
              values[1].den * Len(values))

\* imagehash: a hash of hash_size * hash_size bits
hash_size == 8

\* list(self.hashes.keys()): the keys in the order of their insertion
KeyList(d) == SubSeq([i \in 1..Len(d) |-> d[i][1]], 1, Len(d))

hash_types == <<"dhash", "phash", "ahash", "whash">>

\* hash1 - hash2 of imagehash: the count of the positions whose bits differ
HammingDistance(hash1, hash2) ==
    Cardinality({i \in 1..Len(hash1) : hash1[i] # hash2[i]})

\* the distance divided by the count of rows of the hash
HashSimilarityByRows(hash1, hash2) ==
    Frac(HammingDistance(hash1, hash2), hash_size)

calculate_hash_similarity(hash1, hash2) ==
    Frac(HammingDistance(hash1, hash2), 64)

\* the average over the four hash types, as both loops compute it
avg_similarity(self_hashes, emoji1, emoji2) ==
    np_mean(SubSeq([t \in 1..Len(hash_types) |->
                       calculate_hash_similarity(
                           DictGet(self_hashes, emoji1)[hash_types[t]],
                           DictGet(self_hashes, emoji2)[hash_types[t]])],
                   1, Len(hash_types)))

\* the inner loop runs over emoji_list[i:], the emoji itself included
OthersFromSelf(emoji_list, i) == SubSeq(emoji_list, i, Len(emoji_list))

\* emoji_list[i+1:], with i counted from 1
OthersAfter(emoji_list, i) == SubSeq(emoji_list, i + 1, Len(emoji_list))

\* the pairs the two nested loops compare, in the order they compare them
RECURSIVE Compared(_, _)
Compared(emoji_list, i) ==
    IF i > Len(emoji_list)
    THEN <<>>
    ELSE With(OthersAfter(emoji_list, i),
              LAMBDA others :
                 SubSeq([k \in 1..Len(others) |-> <<emoji_list[i], others[k]>>],
                        1, Len(others)))
         \o Compared(emoji_list, i + 1)

\* the pairs below the threshold, each with its score, before the sort
ConfusablePairs(self_hashes, compared, threshold) ==
    SelectSeq(SubSeq([k \in 1..Len(compared) |->
                         <<compared[k][1], compared[k][2],
                           avg_similarity(self_hashes, compared[k][1], compared[k][2])>>],
                     1, Len(compared)),
              LAMBDA pair : FracLess(pair[3], threshold))

\* the list is returned as appended, without the sort
FindConfusablePairsUnsorted(self_hashes, threshold) ==
    With(Compared(KeyList(self_hashes), 1),
         LAMBDA compared :
            [confusable_pairs |-> ConfusablePairs(self_hashes, compared, threshold),
             comparisons |-> Len(compared)])

\* returns confusable_pairs; comparisons is the local counter at the return.
\* The sort key is the numerator: every score is a count of 256ths
find_confusable_pairs(self_hashes, threshold) ==
    With(Compared(KeyList(self_hashes), 1),
         LAMBDA compared :
            With(ConfusablePairs(self_hashes, compared, threshold),
                 LAMBDA confusable_pairs :
                    [confusable_pairs |->
                         Items(StableSortByKey(
                             SubSeq([k \in 1..Len(confusable_pairs) |->
                                        <<confusable_pairs[k][3].num,
                                          confusable_pairs[k]>>],
                                    1, Len(confusable_pairs)))),
                     comparisons |-> Len(compared)]))

\* scores, as a dict: <<emoji, score>> in the order of self.hashes
calculate_distinctiveness_scores(self_hashes) ==
    With(KeyList(self_hashes),
         LAMBDA emoji_list :
            SubSeq([i \in 1..Len(emoji_list) |->
                       <<emoji_list[i],
                         With(SelectSeq(emoji_list,
                                        LAMBDA emoji2 : emoji2 # emoji_list[i]),
                              LAMBDA others :
                                 np_mean(SubSeq(
                                     [k \in 1..Len(others) |->
                                         avg_similarity(self_hashes,
                                                        emoji_list[i], others[k])],
                                     1, Len(others))))>>],
                   1, Len(emoji_list)))

\* the loop ends at the first image that does not load
HashLoopAborting(emoji_list, images) ==
    Loop(LAMBDA st, k :
            IF st.failed # <<>> THEN st
            ELSE IF images[emoji_list[k].emoji] = <<>>
            THEN [st EXCEPT !.failed = Append(@, emoji_list[k].emoji)]
            ELSE [st EXCEPT !.hashes = DictSet(@, emoji_list[k].emoji,
                                               images[emoji_list[k].emoji][1])],
         [hashes |-> <<>>, failed |-> <<>>], 1, Len(emoji_list))

\* the loop of compute_perceptual_hashes: hashes[emoji['emoji']] = {...} for
\* each emoji whose image loads, failed.append(...) for the others.
\* images: emoji -> <<the hashes of its image>>, <<>> when
\* load_and_preprocess_image or a hash raises
HashLoop(emoji_list, images) ==
    Loop(LAMBDA st, k :
            IF images[emoji_list[k].emoji] = <<>>
            THEN [st EXCEPT !.failed = Append(@, emoji_list[k].emoji)]
            ELSE [st EXCEPT !.hashes = DictSet(@, emoji_list[k].emoji,
                                               images[emoji_list[k].emoji][1])],
         [hashes |-> <<>>, failed |-> <<>>], 1, Len(emoji_list))

\* self.hashes = hashes; return hashes
compute_perceptual_hashes(emoji_list, images) == HashLoop(emoji_list, images).hashes

\* the analyzer's operations, on a pool of the first emoji main analyzes

MaxPool == 3

PoolEmoji == Take(filter_problematic_emoji(fully_qualified(emoji_metadata)), MaxPool)

\* a hash whose bits are 1 at the given positions
Bits(ones) == [i \in 1..(hash_size * hash_size) |-> IF i \in ones THEN 1 ELSE 0]

NoBits == Bits({})

AllBits == Bits(1..(hash_size * hash_size))

HashVectors == {NoBits, AllBits, Bits(1..13), Bits(5..64), Bits(1..30)}

\* the hashes of four images: a blank one, one 13 bits away from it, one far
\* from both, and one whose every bit differs from the blank one's
HashRecords ==
    {[dhash |-> NoBits, phash |-> NoBits, ahash |-> NoBits, whash |-> NoBits],
     [dhash |-> Bits(1..13), phash |-> NoBits, ahash |-> NoBits, whash |-> NoBits],
     [dhash |-> Bits(5..64), phash |-> AllBits, ahash |-> Bits(1..30), whash |-> NoBits],
     [dhash |-> AllBits, phash |-> AllBits, ahash |-> AllBits, whash |-> AllBits]}

\* the images on disk: for each emoji of the pool, <<its hashes>>, or <<>>
\* when the image is missing or does not load
ImageStores ==
    [{PoolEmoji[k].emoji : k \in 1..Len(PoolEmoji)} ->
        {<<>>} \cup {<<record>> : record \in HashRecords}]

\* 0.15 is the default and the one main passes
Thresholds == {Frac(15, 100), Frac(13, 256), Frac(0, 1), Frac(1, 1), Frac(2, 1)}

AnalyzerCall(op, arg, ret) ==
    /\ pc = "idle"
    /\ last' = [op |-> op, arg |-> arg, ret |-> ret]
    /\ pc' = "returned"

ComputePerceptualHashes(images) ==
    /\ hashes = <<>>
    /\ hashes' = compute_perceptual_hashes(PoolEmoji, images)
    /\ AnalyzerCall("compute_perceptual_hashes", <<>>, hashes')
    /\ UNCHANGED <<files, codec>>

CalculateHashSimilarity(hash1, hash2) ==
    /\ AnalyzerCall("calculate_hash_similarity", <<hash1, hash2>>,
                    calculate_hash_similarity(hash1, hash2))
    /\ UNCHANGED <<files, codec, hashes>>

FindConfusablePairs(threshold) ==
    /\ AnalyzerCall("find_confusable_pairs", threshold,
                    find_confusable_pairs(hashes, threshold))
    /\ UNCHANGED <<files, codec, hashes>>

CalculateDistinctivenessScores ==
    /\ AnalyzerCall("calculate_distinctiveness_scores", <<>>,
                    calculate_distinctiveness_scores(hashes))
    /\ UNCHANGED <<files, codec, hashes>>

NextSimilarity ==
    \/ \E images \in ImageStores : ComputePerceptualHashes(images)
    \/ \E hash1, hash2 \in HashVectors : CalculateHashSimilarity(hash1, hash2)
    \/ \E threshold \in Thresholds : FindConfusablePairs(threshold)
    \/ CalculateDistinctivenessScores
    \/ Return

SpecSimilarity == Init /\ [][NextSimilarity]_vars

-----------------------------------------------------------------------------
(* visual_similarity.main up to the hashing, on a batch of images of which  *)
(* some do not load                                                          *)

MaxImages == 102

\* main: if downloaded < 100: return
MinDownloaded == 100

\* filtered_emoji[:test_size]: MaxImages emoji with different glyphs
BatchEmoji ==
    [k \in 1..MaxImages |->
        [emoji |-> <<128512 + k>>, codepoint |-> <<128512 + k>>, name |-> <<k>>,
         status |-> "fully-qualified"]]

\* the places in the batch whose image file may be one that does not load
Corruptible == {1, 2, MinDownloaded}

\* the first `available` emoji have an image file, and those in the places
\* `corrupt` raise when loaded. main returns when fewer than 100 images are
\* there, else it calls compute_perceptual_hashes on the available emoji
MainComputeHashes(available, corrupt) ==
    /\ pc = "idle"
    /\ hashes = <<>>
    /\ IF available < MinDownloaded
       THEN /\ last' = [op |-> "main", arg |-> available,
                        ret |-> "Not enough images downloaded"]
            /\ hashes' = hashes
       ELSE LET emoji_list == Take(BatchEmoji, available)
                images == [emoji \in {BatchEmoji[k].emoji : k \in 1..available} |->
                              IF (emoji[1] - 128512) \in corrupt THEN <<>>
                              ELSE <<[dhash |-> NoBits, phash |-> NoBits,
                                      ahash |-> NoBits, whash |-> NoBits]>>]
                done == HashLoop(emoji_list, images)
            IN /\ hashes' = done.hashes
               /\ last' = [op |-> "compute_perceptual_hashes",
                           arg |-> <<emoji_list, images>>,
                           ret |-> done.hashes, failed |-> done.failed]
    /\ pc' = "returned"
    /\ UNCHANGED <<files, codec>>

NextBatch ==
    \/ \E available \in 0..MaxImages, corrupt \in SUBSET Corruptible :
          MainComputeHashes(available, corrupt)
    \/ Return

SpecBatch == Init /\ [][NextBatch]_vars

-----------------------------------------------------------------------------
(* select_top_candidates and the two mapping builders, on candidate files   *)
(* of any length up to MaxCandidates                                         *)

MaxCandidates == 60

\* the emoji main passes to select_top_candidates
available_emoji == filter_problematic_emoji(fully_qualified(emoji_metadata))

\* select_top_candidates(available_emoji, scores, n_candidates), and main's
\* saving of the result as data/top_candidates.json
SelectTopCandidates(kind, n) ==
    /\ pc = "idle"
    /\ ~Exists("top_candidates")
    /\ LET scores == ScoresFor(available_emoji, kind)
           candidates == select_top_candidates(available_emoji, scores, n)
       IN /\ last' = [op |-> "select_top_candidates", arg |-> <<scores, n>>,
                      ret |-> candidates]
          /\ files' = Saved("top_candidates", candidates)
    /\ pc' = "returned"
    /\ UNCHANGED <<codec, hashes>>

\* a call of a builder: what it returns, whether it raised, and the status
\* lines it printed
BuilderCall(op, arg, ret, messages) ==
    /\ pc = "idle"
    /\ Exists("top_candidates")
    /\ last' = [op |-> op, arg |-> arg, ret |-> ret, raised |-> FALSE,
                messages |-> messages]
    /\ pc' = "returned"

\* create_optimal_mapping(): prints nothing, returns (mapping, priority_mapping)
CreateOptimalMapping ==
    /\ BuilderCall("create_optimal_mapping", files.top_candidates,
                   create_optimal_mapping(files.top_candidates), <<>>)
    /\ UNCHANGED <<files, codec, hashes>>

\* create_steganographic_mapping(): saves the file, prints that it did,
\* returns mapping
CreateSteganographicMappingCall ==
    /\ BuilderCall("create_steganographic_mapping", files.top_candidates,
                   create_steganographic_mapping(files.top_candidates),
                   <<"Steganographic mapping saved">>)
    /\ files' = Saved("base58_emoji_mapping_stego",
                      StegoMappingFile(files.top_candidates))
    /\ UNCHANGED <<codec, hashes>>

NextBuilder ==
    \/ \E kind \in {"rising", "falling"}, n \in 0..MaxCandidates :
          SelectTopCandidates(kind, n)
    \/ CreateOptimalMapping
    \/ CreateSteganographicMappingCall
    \/ Return

SpecBuilder == Init /\ [][NextBuilder]_vars

-----------------------------------------------------------------------------
(* Properties                                                              *)

\* every character of a is one of the 58 symbols
OverAlphabet(a) == \A i \in 1..Len(a) : Contains(BASE58_ALPHABET, a[i])

\* the codecs the generated mapping files give
Codecs == {__init__(f) : f \in MappingFiles}

\* C1: round trip. When encode has returned success for an address over the
\* 58-symbol alphabet, decode of the emoji string it returned gives back
\* exactly that address, with success.
C1_RoundTrip ==
    (last.op = "encode" /\ last.ret.success /\ OverAlphabet(last.arg))
        => With(decode(codec[1], last.ret.emoji_address), LAMBDA d :
               d.base58_address = last.arg /\ d.success)

\* an address of several symbols was encoded with success, one of its emoji
\* taking more than one code point
C1_Witness ==
    /\ last.op = "encode"
    /\ last.ret.success
    /\ OverAlphabet(last.arg)
    /\ Len(last.arg) >= 2
    /\ Len(last.ret.emoji_address) > Len(last.arg)

C3_ChecksumRule ==
    (last.op = "validate_base58check" /\ OverAlphabet(last.arg))
        => With(_base58_decode(codec[1], last.arg).bytes, LAMBDA decoded :
               Len(decoded) >= 5 =>
                   With(LastN(decoded, 4)
                            = SubSeq(Sha256(Sha256(DropLastN(decoded, 4))), 1, 4),
                        LAMBDA matches :
                           /\ last.ret.is_valid <=> matches
                           /\ matches => last.ret.error = <<>>
                           /\ ~matches => /\ Len(last.ret.error) = 3
                                          /\ last.ret.error[1] = "Checksum mismatch"))

\* an address of 8 symbols was found valid
C3_Witness ==
    /\ last.op = "validate_base58check"
    /\ Len(last.arg) = 8
    /\ last.ret.is_valid

\* C4: the genesis address is valid, and with its final symbol replaced by
\* any of the 57 other symbols of the alphabet it fails with the
\* checksum-mismatch reason.
C4_GenesisAddress ==
    (last.op = "validate_base58check" /\ last.arg \in GenesisFamily)
        => IF last.arg = GenesisAddress
           THEN last.ret.is_valid /\ last.ret.error = <<>>
           ELSE /\ ~last.ret.is_valid
                /\ Len(last.ret.error) = 3
                /\ last.ret.error[1] = "Checksum mismatch"

\* the genesis address with 'b' for its final 'a' was validated
C4_Witness ==
    /\ last.op = "validate_base58check"
    /\ last.arg = ReplaceLast(GenesisAddress, 98)
    /\ ~last.ret.is_valid

\* C5: the verdict does not depend on the mapping. What validate_base58check
\* has returned for an address is what the codec of every generated mapping
\* file, distinct or steganographic, returns for it: same verdict, same reason.
C5_MappingIndependence ==
    last.op = "validate_base58check"
        => \A other \in Codecs :
               With(validate_base58check(other, last.arg), LAMBDA v :
                   v.is_valid = last.ret.is_valid /\ v.error = last.ret.error)

\* a steganographic codec has rejected an address for its checksum, and a
\* codec with another table exists
C5_Witness ==
    /\ last.op = "validate_base58check"
    /\ codec[1].mapping_strategy = "steganographic"
    /\ ~last.ret.is_valid
    /\ Len(last.ret.error) = 3
    /\ \E other \in Codecs : other.mapping # codec[1].mapping

\* C6: a character outside the alphabet. Whatever its length and its other
\* characters, an address with a character that is not one of the 58 symbols
\* is rejected with the invalid-character reason, naming the first such
\* character, and neither the decoding nor the checksum phase has run.
C6_InvalidSymbol ==
    (last.op = "validate_base58check" /\ ~OverAlphabet(last.arg))
        => /\ ~last.ret.is_valid
           /\ last.ret.error =
                  <<"Invalid character",
                    last.arg[CHOOSE i \in 1..Len(last.arg) :
                                /\ ~Contains(BASE58_ALPHABET, last.arg[i])
                                /\ \A j \in 1..(i - 1) :
                                      Contains(BASE58_ALPHABET, last.arg[j])]>>
           /\ last.ret.steps = <<"alphabet">>

\* the genesis address with 'l' for its third symbol was rejected
C6_Witness ==
    /\ last.op = "validate_base58check"
    /\ last.arg = ReplaceAt(GenesisAddress, 3, 108)
    /\ ~last.ret.is_valid
    /\ last.ret.steps = <<"alphabet">>

\* C7: validate_base58check never raises. It returns a verdict and a reason
\* for every string; an address over the alphabet that decodes to fewer than
\* 5 bytes gets the too-short reason; and what is reported is exactly one of
\* valid, invalid character, too short and checksum mismatch.
C7_NeverRaises ==
    last.op = "validate_base58check"
        => /\ ~last.ret.raised
           /\ last.ret.is_valid \in BOOLEAN
           /\ (OverAlphabet(last.arg)
                  /\ Len(_base58_decode(codec[1], last.arg).bytes) < 5)
                 => /\ ~last.ret.is_valid
                    /\ last.ret.error =
                           <<"Address too short",
                             Len(_base58_decode(codec[1], last.arg).bytes)>>
           /\ IF last.ret.is_valid THEN last.ret.error = <<>>
              ELSE /\ last.ret.error # <<>>
                   /\ last.ret.error[1] \in
                          {"Invalid character", "Address too short", "Checksum mismatch"}

\* the string 1111 was found too short
C7_Witness ==
    /\ last.op = "validate_base58check"
    /\ last.arg = <<49, 49, 49, 49>>
    /\ ~last.ret.raised
    /\ last.ret.error = <<"Address too short", 4>>

\* the number of '1' symbols a starts with
LeadingOnes(a) ==
    CHOOSE k \in 0..Len(a) :
        /\ \A i \in 1..k : a[i] = 49
        /\ k = Len(a) \/ a[k + 1] # 49

\* the integer of a byte string read big-endian, in the digits of IntMulAdd
BigEndianValue(bytes) ==
    Loop(LAMBDA value, i : IntMulAdd(value, 256, bytes[i]), <<>>, 1, Len(bytes))

\* the same integer as a number, for byte strings of at most 3 bytes
RECURSIVE SmallBigEndianValue(_)
SmallBigEndianValue(bytes) ==
    IF bytes = <<>> THEN 0
    ELSE (256 * SmallBigEndianValue(SubSeq(bytes, 1, Len(bytes) - 1)))
             + bytes[Len(bytes)]

\* value = value*58 + index(symbol), as a number, for strings of at most 4 symbols
RECURSIVE SmallBase58Value(_)
SmallBase58Value(a) ==
    IF a = <<>> THEN 0
    ELSE (58 * SmallBase58Value(SubSeq(a, 1, Len(a) - 1)))
             + IndexOf(BASE58_ALPHABET, a[Len(a)])

\* C8: _base58_decode of a string over the alphabet is k zero bytes, k the
\* number of its leading '1' symbols, followed by the big-endian bytes of the
\* accumulated value without a leading zero byte; n symbols '1' give n zero
\* bytes and the empty string gives no bytes.
C8_Base58Decode ==
    (last.op = "_base58_decode" /\ OverAlphabet(last.arg))
        => LET k == LeadingOnes(last.arg)
               bytes == last.ret.bytes
               rest == SubSeq(bytes, k + 1, Len(bytes))
           IN  /\ ~last.ret.raised
               /\ Len(bytes) >= k
               /\ \A i \in 1..k : bytes[i] = 0
               /\ \A i \in 1..Len(rest) : rest[i] \in 0..255
               /\ rest # <<>> => rest[1] # 0
               /\ BigEndianValue(rest)
                      = Base58Accumulate(BASE58_ALPHABET, last.arg).value
               /\ Len(last.arg) <= 4
                      => SmallBigEndianValue(rest) = SmallBase58Value(last.arg)
               /\ k = Len(last.arg) => bytes = Repeat(0, Len(last.arg))

\* the genesis address was decoded to 25 bytes, the first of them zero
C8_Witness ==
    /\ last.op = "_base58_decode"
    /\ last.arg = GenesisAddress
    /\ Len(last.ret.bytes) = 25
    /\ last.ret.bytes[1] = 0
    /\ last.ret.bytes[2] # 0

\* the sequences of seqs, joined in order
Joined(seqs) == Loop(LAMBDA joined, i : joined \o seqs[i], <<>>, 1, Len(seqs))

\* C9: encode never fails. For every string it returns one glyph for each
\* input symbol, in order: the emoji of the symbol where mapping has the
\* symbol, the placeholder where it has not; and success is true exactly
\* when mapping has every symbol.
C9_Encode ==
    last.op = "encode"
        => LET mapping == codec[1].mapping
               glyphs == [i \in 1..Len(last.arg) |->
                             IF last.arg[i] \in DictKeys(mapping)
                             THEN DictGet(mapping, last.arg[i]).emoji
                             ELSE <<Placeholder>>]
           IN  /\ last.ret.emoji_address = Joined(glyphs)
               /\ Len(_split_emoji(last.ret.emoji_address)) = Len(last.arg)
               /\ last.ret.success \in BOOLEAN
               /\ last.ret.success
                      <=> \A i \in 1..Len(last.arg) : last.arg[i] \in DictKeys(mapping)

\* a string with a mapped symbol and, after it, an unmapped one was encoded
C9_Witness ==
    /\ last.op = "encode"
    /\ ~last.ret.success
    /\ \E i, j \in 1..Len(last.arg) :
          /\ i < j
          /\ last.arg[i] \in DictKeys(codec[1].mapping)
          /\ last.arg[j] \notin DictKeys(codec[1].mapping)

\* C10: decode never fails. For every glyph string it returns one symbol for
\* each emoji _split_emoji cuts from it, in order: the symbol of the emoji
\* where reverse_mapping has the emoji, '?' where it has not; and success is
\* true exactly when reverse_mapping has every emoji.
C10_Decode ==
    last.op = "decode"
        => LET reverse_mapping == codec[1].reverse_mapping
               clusters == _split_emoji(last.arg)
           IN  /\ Len(last.ret.base58_address) = Len(clusters)
               /\ \A i \in 1..Len(clusters) :
                      last.ret.base58_address[i] =
                          IF clusters[i] \in DictKeys(reverse_mapping)
                          THEN DictGet(reverse_mapping, clusters[i])
                          ELSE Sentinel
               /\ last.ret.success \in BOOLEAN
               /\ last.ret.success
                      <=> \A i \in 1..Len(clusters) :
                              clusters[i] \in DictKeys(reverse_mapping)

\* a glyph string with a mapped emoji and, after it, an unmapped one was decoded
C10_Witness ==
    /\ last.op = "decode"
    /\ ~last.ret.success
    /\ \E i, j \in 1..Len(_split_emoji(last.arg)) :
          /\ i < j
          /\ _split_emoji(last.arg)[i] \in DictKeys(codec[1].reverse_mapping)
          /\ _split_emoji(last.arg)[j] \notin DictKeys(codec[1].reverse_mapping)

\* C11: scan stops at a failed decode. When some emoji of the scanned string
\* has no entry in reverse_mapping, the result has decode_success and
\* checksum_valid false, the validation has not run, and the only message is
\* the decode failure; so checksum_valid true implies decode_success true.
C11_ScanShortCircuit ==
    last.op = "scan"
        => LET clusters == _split_emoji(last.arg[1])
               unmapped == \E i \in 1..Len(clusters) :
                               clusters[i] \notin DictKeys(codec[1].reverse_mapping)
           IN  /\ unmapped
                     => /\ ~last.ret.decode_success
                        /\ ~last.ret.checksum_valid
                        /\ last.ret.steps = <<"decode">>
                        /\ last.ret.errors = << <<"Failed to decode emoji address">> >>
               /\ last.ret.checksum_valid => last.ret.decode_success

\* a string with a mapped emoji and the placeholder glyph was scanned, the
\* validation asked for
C11_Witness ==
    /\ last.op = "scan"
    /\ last.arg[2]
    /\ ~last.ret.decode_success
    /\ \E i, j \in 1..Len(_split_emoji(last.arg[1])) :
          /\ _split_emoji(last.arg[1])[i] \in DictKeys(codec[1].reverse_mapping)
          /\ _split_emoji(last.arg[1])[j] = <<Placeholder>>

\* what a finished scan reports: the decoding's result, and the validation's
\* verdict and reason where the validation was due
ScanOutcome ==
    LET d == decode(codec[1], last.arg[1])
        v == validate_base58check(codec[1], d.base58_address)
    IN  /\ last.ret.emoji = last.arg[1]
        /\ last.ret.base58 = d.base58_address
        /\ last.ret.decode_success = d.success
        /\ IF d.success /\ last.arg[2]
           THEN /\ last.ret.steps = <<"decode", "validate">>
                /\ last.ret.checksum_valid = v.is_valid
                /\ last.ret.errors =
                       IF v.is_valid THEN << <<"Checksum valid">> >>
                       ELSE << <<"Checksum validation failed">> \o v.error >>
           ELSE /\ last.ret.steps = <<"decode">>
                /\ ~last.ret.checksum_valid
        /\ last.ret = scan(codec[1], last.arg[1], last.arg[2])

\* C12: scan is a single pass. From its start it decodes once, validates at
\* most once and only after a successful decode, never goes back, and always
\* reaches its return; the result then holds the verdict of
\* validate_base58check on the decoded address, the valid outcome and each
\* reason for an invalid one giving different results.
C12_ScanSinglePass ==
    /\ [](pc = "returned" => ScanOutcome)
    /\ [][/\ pc = "scan_start" => pc' \in {"scan_decoded", "returned"}
          /\ pc = "scan_decoded" => pc' = "returned"
          /\ pc' = "scan_decoded"
                => /\ pc = "scan_start"
                   /\ last'.arg[2]
                   /\ last'.ret.decode_success
          /\ pc \in {"scan_start", "scan_decoded"}
                => /\ last'.arg = last.arg
                   /\ Len(last'.ret.steps) = Len(last.ret.steps) + 1]_vars
    /\ (pc = "scan_start") ~> (pc = "returned")
    /\ (pc = "scan_decoded") ~> (pc = "returned")

\* a scan has returned after decoding and validating, the checksum not matching
C12_Witness ==
    /\ pc = "returned"
    /\ last.op = "scan"
    /\ last.ret.steps = <<"decode", "validate">>
    /\ ~last.ret.checksum_valid
    /\ Len(last.ret.errors) = 1
    /\ last.ret.errors[1][2] = "Checksum mismatch"

\* C13: nothing found. For a text without any code point of the emoji
\* ranges extract_from_text returns the nothing-found result: no extracted
\* emoji, no address, both flags false, the message of its own, start_index
\* -1, and neither decoding nor validation run; for a text with such a code
\* point the result differs from it in the extracted emoji, start_index and
\* messages.
C13_NothingFound ==
    last.op = "extract_from_text"
        => IF \A i \in 1..Len(last.arg[1]) : ~InEmojiPattern(last.arg[1][i])
           THEN last.ret = [text |-> last.arg[1], extracted_emoji |-> <<>>,
                            base58 |-> None,
                            decode_success |-> FALSE, checksum_valid |-> FALSE,
                            errors |-> << <<"No emoji found in text">> >>,
                            start_index |-> -1, steps |-> <<"extract">>]
           ELSE /\ last.ret.extracted_emoji # <<>>
                /\ last.ret.start_index = 0
                /\ last.ret.base58 # None
                /\ \A i \in 1..Len(last.ret.errors) :
                       last.ret.errors[i] # <<"No emoji found in text">>
                /\ Len(last.ret.steps) >= 2

\* a text of two characters, none of the emoji ranges, was searched
C13_Witness ==
    /\ last.op = "extract_from_text"
    /\ Len(last.arg[1]) = 2
    /\ last.ret.start_index = -1

\* C14: extraction is scan of what was extracted. For a text from which some
\* emoji are extracted, extract_from_text reports the decoded address,
\* decode_success and checksum_valid that scan reports for the extracted
\* emoji string.
C14_ExtractIsScan ==
    (last.op = "extract_from_text" /\ _extract_emoji_from_text(last.arg[1]) # <<>>)
        => With(scan(codec[1], _extract_emoji_from_text(last.arg[1]), last.arg[2]),
                LAMBDA r :
                   /\ last.ret.extracted_emoji = r.emoji
                   /\ last.ret.base58 = r.base58
                   /\ last.ret.decode_success = r.decode_success
                   /\ last.ret.checksum_valid = r.checksum_valid)

\* an address with a matching checksum was found in a text that has other
\* characters around the emoji
C14_Witness ==
    /\ last.op = "extract_from_text"
    /\ last.arg[2]
    /\ Len(last.ret.extracted_emoji) > 0
    /\ Len(last.ret.extracted_emoji) < Len(last.arg[1])
    /\ last.ret.decode_success
    /\ last.ret.checksum_valid

\* C15: segmentation is idempotent. The emoji _split_emoji has cut from a
\* string, joined and cut again, are the same emoji.
C15_SplitIdempotent ==
    last.op = "_split_emoji" => _split_emoji(Joined(last.ret)) = last.ret

\* a string of four code points was cut into at least two emoji, one of them
\* holding a joiner
C15_Witness ==
    /\ last.op = "_split_emoji"
    /\ Len(last.arg) = MaxSplitLen
    /\ Len(last.ret) >= 2
    /\ \E i \in 1..Len(last.ret) : Contains(last.ret[i], ZWJ)

\* c starts a glyph: it is no variation selector, modifier or joiner
IsBase(c) ==
    /\ c \notin {VS16, VS15, ZWJ}
    /\ ~(SkinToneFirst <= c /\ c <= SkinToneLast)

\* s is a concatenation of glyphs: a base code point, variation selectors,
\* then modifiers, then joiners each followed by a base code point that may
\* carry variation selectors and then modifiers of its own
IsGlyphString(s) ==
    /\ s # <<>> => IsBase(s[1])
    /\ \A i \in 1..Len(s) : s[i] = ZWJ => i < Len(s) /\ IsBase(s[i + 1])
    /\ \A i \in 2..Len(s) :
           s[i] \in {VS16, VS15} => ~(SkinToneFirst <= s[i - 1] /\ s[i - 1] <= SkinToneLast)

\* the positions at which the glyphs of a glyph string start
GlyphStarts(s) == {i \in 1..Len(s) : IsBase(s[i]) /\ (i = 1 \/ s[i - 1] # ZWJ)}

\* C16: as many emoji as glyphs. _split_emoji of k concatenated glyphs
\* returns k emoji, each one of the glyphs, in order: every emoji starts
\* where a glyph starts.
C16_ClusterCount ==
    (last.op = "_split_emoji" /\ IsGlyphString(last.arg))
        => /\ Len(last.ret) = Cardinality(GlyphStarts(last.arg))
           /\ Joined(last.ret) = last.arg
           /\ \A k \in 1..Len(last.ret) :
                  (Len(Joined(SubSeq(last.ret, 1, k - 1))) + 1) \in GlyphStarts(last.arg)

\* C19: the similarity of two hashes is the count of their differing bits
\* divided by the count of their bits: it lies between 0 and 1, is 0 for
\* equal hashes only and 1 only for hashes that differ in every bit.
C19_HashSimilarity ==
    last.op = "calculate_hash_similarity" =>
        LET hash1 == last.arg[1]
            hash2 == last.arg[2]
            differing == {i \in DOMAIN hash1 : hash1[i] # hash2[i]}
        IN /\ last.ret.den > 0
           /\ last.ret.num * Len(hash1) = Cardinality(differing) * last.ret.den
           /\ 0 <= last.ret.num /\ last.ret.num <= last.ret.den
           /\ last.ret.num = 0 <=> hash1 = hash2
           /\ last.ret.num = last.ret.den <=> differing = DOMAIN hash1

\* two hashes that differ in every bit were compared, and the result is 1
C19_Witness ==
    /\ last.op = "calculate_hash_similarity"
    /\ \A i \in DOMAIN last.arg[1] : last.arg[1][i] # last.arg[2][i]
    /\ last.ret.num = last.ret.den

\* the glyphs of the hashed pool
PoolGlyphs == {hashes[k][1] : k \in 1..Len(hashes)}

\* the count of 256ths in the composite score of two pool glyphs: the bits
\* in which their four hashes differ
DifferingBits(glyph1, glyph2) ==
    LET h1 == DictGet(hashes, glyph1)
        h2 == DictGet(hashes, glyph2)
        Differing(type) == Cardinality({i \in DOMAIN h1[type] : h1[type][i] # h2[type][i]})
    IN Differing("dhash") + Differing("phash") + Differing("ahash") + Differing("whash")

\* C17: confusable detection is symmetric and irreflexive. The score of
\* (A, B) is the score of (B, A); n glyphs take n(n-1)/2 comparisons, one
\* for each unordered pair of distinct glyphs; no returned tuple pairs a
\* glyph with itself and no unordered pair is returned twice.
C17_SymmetricIrreflexive ==
    /\ \A glyph1, glyph2 \in PoolGlyphs :
           avg_similarity(hashes, glyph1, glyph2) = avg_similarity(hashes, glyph2, glyph1)
    /\ last.op = "find_confusable_pairs" =>
           LET pairs == last.ret.confusable_pairs
           IN /\ 2 * last.ret.comparisons = Len(hashes) * (Len(hashes) - 1)
              /\ \A k \in 1..Len(pairs) :
                     /\ pairs[k][1] # pairs[k][2]
                     /\ {pairs[k][1], pairs[k][2]} \subseteq PoolGlyphs
              /\ \A j, k \in 1..Len(pairs) :
                     {pairs[j][1], pairs[j][2]} = {pairs[k][1], pairs[k][2]} => j = k
              /\ last.arg = Frac(2, 1) =>
                     {{pairs[k][1], pairs[k][2]} : k \in 1..Len(pairs)}
                         = {pair \in SUBSET PoolGlyphs : Cardinality(pair) = 2}

\* three glyphs were hashed and compared, and all three pairs came back
C17_Witness ==
    /\ last.op = "find_confusable_pairs"
    /\ Len(hashes) = 3
    /\ last.ret.comparisons = 3
    /\ Len(last.ret.confusable_pairs) = 3

\* C18: find_confusable_pairs returns the pairs whose composite score, the
\* mean of the four hash distances, is strictly below the threshold, each
\* once and with its score, in ascending order of score. Glyphs with the
\* scores 13/256, 154/256 and 149/256 and the threshold 0.15 give the first
\* pair alone.
C18_ConfusablePairs ==
    last.op = "find_confusable_pairs" =>
        LET pairs == last.ret.confusable_pairs
            threshold == last.arg
        IN /\ {pairs[k] : k \in 1..Len(pairs)}
                  = {<<hashes[i][1], hashes[j][1],
                       Frac(DifferingBits(hashes[i][1], hashes[j][1]), 256)>> :
                        <<i, j>> \in {ij \in (1..Len(hashes)) \X (1..Len(hashes)) :
                            /\ ij[1] < ij[2]
                            /\ DifferingBits(hashes[ij[1]][1], hashes[ij[2]][1])
                                   * threshold.den < threshold.num * 256}}
           /\ \A j, k \in 1..Len(pairs) : j < k => pairs[j][3].num <= pairs[k][3].num
           /\ \A j, k \in 1..Len(pairs) : pairs[j] = pairs[k] => j = k
           /\ ( /\ Len(hashes) = 3
                /\ threshold = Frac(15, 100)
                /\ DifferingBits(hashes[1][1], hashes[2][1]) = 13
                /\ DifferingBits(hashes[1][1], hashes[3][1]) = 154
                /\ DifferingBits(hashes[2][1], hashes[3][1]) = 149 )
              => pairs = <<<<hashes[1][1], hashes[2][1], Frac(13, 256)>>>>

\* the three glyphs of the example were compared at the threshold 0.15
C18_Witness ==
    /\ last.op = "find_confusable_pairs"
    /\ last.arg = Frac(15, 100)
    /\ Len(hashes) = 3
    /\ DifferingBits(hashes[1][1], hashes[2][1]) = 13
    /\ DifferingBits(hashes[1][1], hashes[3][1]) = 154
    /\ DifferingBits(hashes[2][1], hashes[3][1]) = 149
    /\ Len(last.ret.confusable_pairs) = 1

\* C20: every glyph of the hashed pool has a distinctiveness score, a
\* number: the mean of its composite scores with every other glyph of the
\* pool, also when the pool holds one glyph only.
C20_Distinctiveness ==
    last.op = "calculate_distinctiveness_scores" =>
        /\ Len(last.ret) = Len(hashes)
        /\ \A k \in 1..Len(hashes) :
               LET glyph == hashes[k][1]
                   score == last.ret[k][2]
                   others == PoolGlyphs \ {glyph}
                   total == Loop(LAMBDA sum, j :
                                    IF j = k THEN sum
                                    ELSE sum + DifferingBits(glyph, hashes[j][1]),
                                 0, 1, Len(hashes))
               IN /\ last.ret[k][1] = glyph
                  /\ score.den > 0
                  /\ score.num * 256 * Cardinality(others) = total * score.den

\* the pool create_steganographic_mapping assigns from: the filtered common
\* emoji, filled up from the distinct candidates while fewer than 58
SurvivingPool(op, candidates) ==
    IF op = "create_optimal_mapping" THEN candidates
    ELSE IF Len(FilterCommon(common_emoji)) < 58
         THEN Backfill(candidates, FilterCommon(common_emoji))
         ELSE FilterCommon(common_emoji)

\* the priority order of a builder
OrderOf(op) ==
    IF op = "create_optimal_mapping" THEN priority_mapping ELSE priority_order

\* the mapping a builder call returned
MappingOf(call) ==
    IF call.op = "create_optimal_mapping" THEN call.ret.mapping ELSE call.ret

BuilderReturned == last.op \in {"create_optimal_mapping", "create_steganographic_mapping"}

Min(a, b) == IF a < b THEN a ELSE b

\* C21: both builders give the i-th symbol of the priority order the i-th
\* entry of the surviving pool and record the priority i, for i from 1 to
\* the smaller of 58 and the size of the pool; the recorded priorities are
\* 1, 2, ... up to the count of entries.
C21_PriorityAssignment ==
    BuilderReturned =>
        LET pool == SurvivingPool(last.op, last.arg)
            order == OrderOf(last.op)
            mapping == MappingOf(last)
        IN /\ Len(mapping) = Min(58, Len(pool))
           /\ \A i \in 1..Min(58, Len(pool)) :
                  /\ mapping[i][1] = order[i]
                  /\ mapping[i][2].emoji = pool[i].emoji
                  /\ mapping[i][2].name = pool[i].name
                  /\ mapping[i][2].priority = i
           /\ {mapping[i][2].priority : i \in 1..Len(mapping)} = 1..Len(mapping)

\* either builder has returned a mapping of 58 entries
C21_Witness ==
    /\ BuilderReturned
    /\ Len(MappingOf(last)) = 58
    /\ MappingOf(last)[58][2].priority = 58

\* C22: a pool with fewer surviving entries than prioritized symbols. The
\* builder does not raise, returns the partial mapping whose keys are the
\* first (pool size) symbols of the priority order, and tells its caller
\* that the candidates did not suffice: it prints some line besides the
\* lines a complete run prints.
C22_InsufficientCandidates ==
    (BuilderReturned /\ Len(SurvivingPool(last.op, last.arg)) < 58) =>
        /\ ~last.raised
        /\ KeyList(MappingOf(last))
               = Take(OrderOf(last.op), Len(SurvivingPool(last.op, last.arg)))
        /\ \E line \in Range(last.messages) : line # "Steganographic mapping saved"

\* the common emoji with, of those whose name holds 'heart', the first only
OneHeartOnly ==
    LET hearts == {k \in 1..Len(common_emoji) :
                       IsSubstring(HeartPattern, common_emoji[k].name)}
        kept == {k \in 1..Len(common_emoji) :
                     k \in hearts => \A j \in hearts : k <= j}
    IN SelectSeq([k \in 1..Len(common_emoji) |->
                     [emoji |-> common_emoji[k].emoji, kept |-> k \in kept]],
                 LAMBDA e : e.kept)

\* C23: the pre-filter of create_steganographic_mapping leaves one
\* representative of the 'heart' cluster, the first seen; the later ones are
\* dropped and the other emoji stay in their order. The mapping is assigned
\* from that pool.
C23_ConfusableFilter ==
    last.op = "create_steganographic_mapping" =>
        \A i \in 1..Min(Len(last.ret), Len(OneHeartOnly)) :
            last.ret[i][2].emoji = OneHeartOnly[i].emoji

\* C24: from at least 58 candidates with pairwise different glyphs, either
\* builder emits a mapping of exactly 58 entries whose keys are the 58
\* alphabet symbols (the first 58 of the priority order are the alphabet,
\* each symbol once) and whose glyphs are pairwise different; the
\* steganographic builder after filling up from the candidates.
C24_CompleteMapping ==
    ( /\ BuilderReturned
      /\ Len(last.arg) >= 58
      /\ Cardinality({last.arg[k].emoji : k \in 1..Len(last.arg)}) = Len(last.arg) )
    => LET mapping == MappingOf(last)
           order == Take(OrderOf(last.op), 58)
       IN /\ Len(mapping) = 58
          /\ {mapping[i][1] : i \in 1..Len(mapping)} = Range(BASE58_ALPHABET)
          /\ Cardinality(Range(BASE58_ALPHABET)) = 58
          /\ Len(order) = 58 /\ Range(order) = Range(BASE58_ALPHABET)
          /\ Cardinality({mapping[i][2].emoji : i \in 1..Len(mapping)}) = 58

\* the steganographic builder was given 58 candidates or more, passed over
\* the first one, which the pool held already, and filled entry 57 from a
\* later one
C24_Witness ==
    /\ last.op = "create_steganographic_mapping"
    /\ Len(last.arg) >= 58
    /\ Len(last.ret) = 58
    /\ last.ret[57][2].usage_tier = 7
    /\ last.ret[57][2].emoji # last.arg[1].emoji
    /\ \E i \in 1..56 : last.ret[i][2].emoji = last.arg[1].emoji

\* what a method returns for an argument, on a codec
ResultOf(self, op, arg) ==
    CASE op = "encode" -> encode(self, arg)
      [] op = "decode" -> decode(self, arg)
      [] op = "validate_base58check" -> validate_base58check(self, arg)
      [] op = "_base58_decode" -> _base58_decode(self, arg)
      [] op = "scan" -> scan(self, arg[1], arg[2])
      [] op = "extract_from_text" -> extract_from_text(self, arg[1], arg[2])

\* C25: the loaded tables are immutable. No call of encode, decode,
\* validate_base58check, scan or extract_from_text changes mapping,
\* reverse_mapping or base58_alphabet: after any calls the codec is still
\* what the constructor built from a mapping file, and the result of a
\* call is the method's value for the argument on that codec, whatever
\* calls came before.
C25_Immutable ==
    /\ [](codec # <<>> =>
             \E mapping_file \in DOMAIN files \cap {"base58_emoji_mapping",
                                                     "base58_emoji_mapping_stego"} :
                 codec[1] = __init__(files[mapping_file]))
    /\ [][(pc = "idle" /\ pc' = "returned")
            => /\ codec' = codec
               /\ last'.ret = ResultOf(codec[1], last'.op, last'.arg)]_vars

\* a decode of an unmapped glyph has returned on a constructed codec
C25_Witness ==
    /\ codec # <<>>
    /\ last.op = "decode"
    /\ ~last.ret.success
    /\ last.arg # <<>>

\* C26: the mapping is monotone in the ranking signal. select_top_candidates
\* returns at most n_candidates entries in ascending order of their score;
\* in the mapping create_optimal_mapping builds from them a smaller priority
\* never has a larger distinctiveness; in the steganographic mapping a
\* smaller priority never has a larger usage tier.
C26_Monotone ==
    /\ last.op = "select_top_candidates" =>
           /\ Len(last.ret) <= last.arg[2]
           /\ \A j, k \in 1..Len(last.ret) :
                  j < k => last.ret[j].distinctiveness <= last.ret[k].distinctiveness
    /\ last.op = "create_optimal_mapping" =>
           \A j, k \in 1..Len(last.ret.mapping) :
               last.ret.mapping[j][2].priority < last.ret.mapping[k][2].priority
                   => last.ret.mapping[j][2].distinctiveness
                          <= last.ret.mapping[k][2].distinctiveness
    /\ last.op = "create_steganographic_mapping" =>
           \A j, k \in 1..Len(last.ret) :
               last.ret[j][2].priority < last.ret[k][2].priority
                   => last.ret[j][2].usage_tier <= last.ret[k][2].usage_tier

\* create_optimal_mapping has built 58 entries from candidates that
\* select_top_candidates had to put in order, the scores falling along the
\* emoji list
C26_Witness ==
    /\ last.op = "create_optimal_mapping"
    /\ Len(last.ret.mapping) = 58
    /\ last.ret.mapping[1][2].distinctiveness < last.ret.mapping[58][2].distinctiveness
    /\ last.arg[1].emoji = available_emoji[Len(available_emoji)].emoji

\* C27: an image that does not load is skipped, not fatal. Its glyph goes
\* to the failure list and gets no hashes, every other glyph of the batch
\* gets its hashes (hashed and failed together are the whole batch), and
\* the run stops before the hashing exactly when fewer than 100 images are
\* there.
C27_PerItemSkip ==
    /\ last.op = "compute_perceptual_hashes" =>
           LET emoji_list == last.arg[1]
               images == last.arg[2]
               glyphs == {emoji_list[k].emoji : k \in 1..Len(emoji_list)}
           IN /\ Len(emoji_list) >= 100
              /\ hashes = last.ret
              /\ Len(last.ret) + Len(last.failed) = Len(emoji_list)
              /\ Range(last.failed) = {g \in glyphs : images[g] = <<>>}
              /\ {last.ret[k][1] : k \in 1..Len(last.ret)}
                     = {g \in glyphs : images[g] # <<>>}
              /\ \A k \in 1..Len(last.ret) : last.ret[k][2] = images[last.ret[k][1]][1]
    /\ last.op = "main" => last.arg < 100 /\ hashes = <<>>

\* a batch of 100 images or more was hashed although two or more of them
\* did not load, the first and a later one
C27_Witness ==
    /\ last.op = "compute_perceptual_hashes"
    /\ Len(last.failed) >= 2
    /\ last.failed[1] = last.arg[1][1].emoji
    /\ Len(last.ret) >= 98

\* C28: segmentation is a lossless partition. Every emoji _split_emoji
\* returns is non-empty, the emoji joined in order are the string (a joiner
\* at the very end included), and the loop is over, past the last code
\* point, after at most one turn for each code point.
C28_LosslessPartition ==
    last.op = "_split_emoji" =>
        /\ \A k \in 1..Len(last.ret) : last.ret[k] # <<>>
        /\ Joined(last.ret) = last.arg
        /\ Loop(LAMBDA st, turn : SplitStep(last.arg, st),
                [i |-> 1, emoji_list |-> <<>>], 1, Len(last.arg)).i = Len(last.arg) + 1
        /\ Len(last.ret) <= Len(last.arg)

\* a string that ends with a joiner was cut, and the joiner is the end of
\* the last emoji
C28_Witness ==
    /\ last.op = "_split_emoji"
    /\ Len(last.arg) = MaxSplitLen
    /\ last.arg[Len(last.arg)] = ZWJ
    /\ Len(last.ret) >= 2
    /\ last.ret[Len(last.ret)][Len(last.ret[Len(last.ret)])] = ZWJ

\* the addresses a decoded address is compared with: the short ones, the
\* runs of '1', and two of the 34-symbol ones
ComparedAddresses ==
    OnesAddresses \cup ShortAddresses \cup SeqsUpTo(AddrSymbols, MaxAddrLen)
        \cup {GenesisAddress, ReplaceLast(GenesisAddress, 98)}

\* C29: _base58_decode is injective on the strings over the alphabet. An
\* address that decodes to the bytes just returned for another address is
\* that address: the zero bytes put in front for the leading '1's never
\* make two addresses meet.
C29_DecodeInjective ==
    (last.op = "_base58_decode" /\ ~last.ret.raised) =>
        \A address \in ComparedAddresses :
            With(_base58_decode(codec[1], address), LAMBDA other :
                (~other.raised /\ other.bytes = last.ret.bytes) => address = last.arg)

\* '11' was decoded to two zero bytes, and '1' and '' decode to other bytes
C29_Witness ==
    /\ last.op = "_base58_decode"
    /\ last.arg = <<49, 49>>
    /\ last.ret = [raised |-> FALSE, bytes |-> <<0, 0>>]
    /\ _base58_decode(codec[1], <<49>>).bytes = <<0>>
    /\ _base58_decode(codec[1], <<>>).bytes = <<>>

-----------------------------------------------------------------------------
(* Decoding and encoding back: a codec is built from a generated mapping   *)
(* file or from a mapping file written by hand, glyph strings are decoded, *)
(* and what was decoded is encoded                                         *)

\* '1' and 'z' share U+1F602; '3' is U+2764 U+FE0F; '7' is U+1F602 U+1F3FB
SharedGlyphFile ==
    [base58_alphabet |-> BASE58_ALPHABET,
     mapping |-> <<<<49, [emoji |-> <<128514>>]>>,
                   <<51, [emoji |-> <<10084, 65039>>]>>,
                   <<122, [emoji |-> <<128514>>]>>,
                   <<55, [emoji |-> <<128514, 127995>>]>>>>]

\* '1' is U+2764 and '3' is U+2764 U+FE0F; 'z' is the glyph encode writes
\* for an unknown character; '7' and 'A' share U+1F602 U+200D U+2764
VariantGlyphFile ==
    [base58_alphabet |-> BASE58_ALPHABET,
     mapping |-> <<<<49, [emoji |-> <<10084>>]>>,
                   <<51, [emoji |-> <<10084, 65039>>]>>,
                   <<122, [emoji |-> <<Placeholder>>]>>,
                   <<55, [emoji |-> <<128514, 8205, 10084>>]>>,
                   <<65, [emoji |-> <<128514, 8205, 10084>>]>>>>,
     mapping_strategy |-> "steganographic"]

HandWrittenFiles == {SharedGlyphFile, VariantGlyphFile}

InitRoundTrip ==
    /\ \E data \in MappingFiles \cup HandWrittenFiles :
          /\ files = [name \in {"base58_emoji_mapping"} |-> data]
          /\ codec = <<__init__(data)>>
    /\ pc = "idle"
    /\ last = NoCall
    /\ hashes = <<>>

\* emoji, ok = codec.encode(address) for the address a decode has returned
EncodeDecoded ==
    /\ pc = "returned"
    /\ last.op = "decode"
    /\ last.ret.success
    /\ last' = [op |-> "encode", arg |-> last.ret.base58_address,
                ret |-> encode(codec[1], last.ret.base58_address),
                decoded |-> last.arg]
    /\ UNCHANGED <<files, codec, pc, hashes>>

NextRoundTrip ==
    \/ \E g \in GlyphStrings : Decode(g)
    \/ EncodeDecoded
    \/ Return

SpecRoundTrip == InitRoundTrip /\ [][NextRoundTrip]_vars

\* C30: decoding, then encoding. For every loaded table, one where two
\* symbols share a glyph included, and every glyph string decode returns
\* with success, encode of the decoded address returns that glyph string
\* and success.
C30_ReverseRoundTrip ==
    (last.op = "encode" /\ "decoded" \in DOMAIN last) =>
        /\ last.ret.emoji_address = last.decoded
        /\ last.ret.success

\* with '1' and 'z' sharing a glyph, the shared glyph followed by a
\* two-code-point glyph was decoded to 'z3' and encoded back
C30_Witness ==
    /\ last.op = "encode"
    /\ "decoded" \in DOMAIN last
    /\ codec[1].mapping = SharedGlyphFile.mapping
    /\ last.decoded = <<128514, 10084, 65039>>
    /\ last.arg = <<122, 51>>
    /\ encode(codec[1], <<49>>).emoji_address = encode(codec[1], <<122>>).emoji_address

====
